---- MODULE Spec2Model ----
(***************************************************************************)
(* lhm: merge of a global lefthook configuration with a repository (or     *)
(* adapter-generated) configuration, annotation of adapter output, adapter *)
(* detection and the run_hook pipeline.                                    *)
(*                                                                         *)
(* A serde_yaml Value is modelled as a record [isMap, ents, val]: a        *)
(* Mapping is isMap = TRUE with ents the insertion-ordered sequence of its *)
(* entries (every entry is a record with a `key` field); any other Value   *)
(* is isMap = FALSE with val naming the scalar.  The entries of a hook     *)
(* mapping are records [key, kind, items, val]: kind "map" (commands and   *)
(* scripts), "seq" (jobs) or "scalar"; items are the tasks, records        *)
(* [key, isMap, name, run, sf], where key is the task's mapping key (""    *)
(* inside a jobs sequence), name its `name` field (NoName when it has no   *)
(* string name), run its `run` string and sf its `stage_fixed` field.      *)
(***************************************************************************)
EXTENDS Naturals, Sequences, FiniteSets, TLC

VARIABLES
    pc,      \* the position of the operation under way
    gHook,   \* merge_hook: the global hook definition
    oHook,   \* merge_hook: the overlay (repo) hook definition
    mHook,   \* merge_hook: the result
    gDoc,    \* merge_configs: the global document
    oDoc,    \* merge_configs: the overlay (repo) document
    mDoc,    \* merge_configs: the result
    annIn,   \* annotate_hooks: the document passed in
    annOut,  \* annotate_hooks: the document returned
    command,        \* how the program was invoked: as a hook ("hook") or as
                    \* lhm dry-run ("dry-run")
    hookName,       \* the hook the program was invoked as
    globalFile,     \* the global configuration file in the home directory
    inRepo,         \* whether the working directory is inside a repository
    repoFile,       \* the repository's lefthook configuration file
    preCommit,      \* .pre-commit-config.yaml in the repository root
    husky,          \* .husky in the repository root
    hooksDirs,      \* the directories of HOOKS_DIR_NAMES in the repository root
    globalDoc,      \* run_hook: the global document that was loaded
    repoFound,      \* run_hook: whether a repository configuration was found
    adapter,        \* the adapter detect_adapter returned
    generated,      \* adapter_config_for: what generate_config returned
    adapterConfig,  \* the Option<Value> adapter_config_for returned
    merged,         \* run_hook: the document resolve_config returned
    temp,           \* the temporary file: "none", "exists" or "deleted"
    tempContent,    \* the document written to the temporary file
    dispatched,     \* the document the engine was started with
    printed,        \* dry_run: the document printed
    status,         \* the engine's exit status, once it was started
    logged,         \* the message run_hook or dry_run logged with error!
    exit,           \* the exit code of the program: "none", "SUCCESS", "FAILURE"
    searchDir,      \* find_config: the entries of the directory searched
    dotConfig,      \* find_config: check_dot_config
    foundConfig,    \* find_config: the candidate returned
    gJobs,          \* merge_jobs: the global value
    oJobs,          \* merge_jobs: the repo (overlay) value
    mJobs           \* merge_jobs: the value returned

mergeVars == <<gHook, oHook, mHook, gDoc, oDoc, mDoc>>

annVars == <<annIn, annOut>>

jobsVars == <<gJobs, oJobs, mJobs>>

findVars == <<searchDir, dotConfig, foundConfig>>

envVars == <<command, hookName, globalFile, inRepo, repoFile, preCommit, husky, hooksDirs>>

runVars == <<globalDoc, repoFound, adapter, generated, adapterConfig, merged, temp,
             tempContent, dispatched, printed, status, logged, exit>>

vars == <<pc, mergeVars, annVars, envVars, findVars, jobsVars, runVars>>

\* ------------------------------------------------------------------------
\* Bounds of the model
\* ------------------------------------------------------------------------

\* most entries (tasks and scalar settings) written in a global hook definition
MaxGlobalEntries == 3

\* most entries (tasks and scalar settings) written in an overlay hook definition
MaxOverlayEntries == 2

\* most top-level keys written in one document
MaxTopKeys == 2

\* most entries written in a hook definition passed to annotate_hooks
MaxAnnEntries == 2

\* the number of lines (repos and hooks) written in .pre-commit-config.yaml
MaxPreCommitEntries == 3

\* the number of files in the hooks directories of a repository
MaxDirFiles == 2

\* the number of entries under a candidate name in a searched directory
MaxConfigFiles == 2

\* ------------------------------------------------------------------------
\* Program constants
\* ------------------------------------------------------------------------

GIT_HOOKS ==
    << "applypatch-msg", "commit-msg", "fsmonitor-watchman", "post-applypatch",
       "post-checkout", "post-commit", "post-merge", "post-receive",
       "post-rewrite", "post-update", "pre-applypatch", "pre-auto-gc",
       "pre-commit", "pre-merge-commit", "pre-push", "pre-rebase",
       "pre-receive", "prepare-commit-msg", "push-to-checkout",
       "reference-transaction", "sendemail-validate", "update" >>

SERIAL_HOOKS ==
    << "applypatch-msg", "commit-msg", "pre-commit", "pre-merge-commit",
       "prepare-commit-msg" >>

Contains(seq, x) == \E i \in 1..Len(seq) : seq[i] = x

is_hook_name(name) == Contains(GIT_HOOKS, name)

\* ------------------------------------------------------------------------
\* serde_yaml values
\* ------------------------------------------------------------------------

NoName == ""

\* a field a task does not have
Absent == "absent"

Null == [isMap |-> FALSE, ents |-> <<>>, val |-> "null"]

Scalar(v) == [isMap |-> FALSE, ents |-> <<>>, val |-> v]

MappingValue(ents) == [isMap |-> TRUE, ents |-> ents, val |-> ""]

TaskSpec(key, name, run) ==
    [key |-> key, isMap |-> TRUE, name |-> name, run |-> run, sf |-> Absent,
     files |-> Absent, exclude |-> Absent, glob |-> Absent, skip |-> Absent]

\* an entry of commands, scripts or jobs that is not a mapping
ScalarTask(key, v) ==
    [key |-> key, isMap |-> FALSE, name |-> NoName, run |-> v, sf |-> Absent,
     files |-> Absent, exclude |-> Absent, glob |-> Absent, skip |-> Absent]

ScalarEntry(key, v) == [key |-> key, kind |-> "scalar", items |-> <<>>, val |-> v]

MapEntry(key, items) == [key |-> key, kind |-> "map", items |-> items, val |-> ""]

SeqEntry(key, items) == [key |-> key, kind |-> "seq", items |-> items, val |-> ""]

TopEntry(key, v) == [key |-> key, v |-> v]

\* Mapping::contains_key / get: lookup is by key, not by position
Mapping_contains_key(m, k) == \E i \in 1..Len(m) : m[i].key = k

Mapping_index(m, k) == CHOOSE i \in 1..Len(m) : m[i].key = k

Mapping_get(m, k) == m[Mapping_index(m, k)]

\* Mapping::insert: an existing key keeps its position and takes the new
\* value, a new key is appended
Mapping_insert(m, e) ==
    IF Mapping_contains_key(m, e.key)
    THEN [j \in 1..Len(m) |-> IF m[j].key = e.key THEN e ELSE m[j]]
    ELSE Append(m, e)

\* Mapping::remove is swap_remove: the last entry takes the removed entry's
\* position
Mapping_remove(m, k) ==
    IF ~Mapping_contains_key(m, k) THEN m
    ELSE LET i == Mapping_index(m, k)
             n == Len(m)
         IN  [j \in 1..(n - 1) |-> IF j = i THEN m[n] ELSE m[j]]

\* Mapping::keys, in order
Mapping_keys(m) == [j \in 1..Len(m) |-> m[j].key]

\* ------------------------------------------------------------------------
\* Merge engine (main.rs)
\* ------------------------------------------------------------------------

\* job_name: the `name` field of a job that is a mapping and has a string name
job_name(job) == IF job.isMap THEN job.name ELSE NoName

ItemKeys(items) == [j \in 1..Len(items) |-> items[j].key]

JobNames(items) ==
    LET named == SelectSeq(items, LAMBDA job : job_name(job) # NoName)
    IN  [j \in 1..Len(named) |-> job_name(named[j])]

\* the keys of mapping[section] when it is a mapping
SectionNames(mapping, section) ==
    IF Mapping_contains_key(mapping, section)
       /\ Mapping_get(mapping, section).kind = "map"
    THEN ItemKeys(Mapping_get(mapping, section).items)
    ELSE <<>>

\* mutant: the names of jobs are not collected
collect_task_names_without_jobs(mapping) ==
    SectionNames(mapping, "commands") \o SectionNames(mapping, "scripts")

collect_task_names_from_mapping(mapping) ==
    SectionNames(mapping, "commands") \o SectionNames(mapping, "scripts")
    \o (IF Mapping_contains_key(mapping, "jobs")
           /\ Mapping_get(mapping, "jobs").kind = "seq"
        THEN JobNames(Mapping_get(mapping, "jobs").items)
        ELSE <<>>)

\* retain on a commands/scripts mapping, then drop the section when empty
StripSection(mapping, names, key) ==
    IF Mapping_contains_key(mapping, key) /\ Mapping_get(mapping, key).kind = "map"
    THEN LET kept == SelectSeq(Mapping_get(mapping, key).items,
                               LAMBDA it : ~Contains(names, it.key))
         IN  IF Len(kept) = 0
             THEN Mapping_remove(mapping, key)
             ELSE Mapping_insert(mapping, MapEntry(key, kept))
    ELSE mapping

strip_names_from_commands(mapping, names) == StripSection(mapping, names, "commands")

strip_names_from_scripts(mapping, names) == StripSection(mapping, names, "scripts")

\* mutant: global jobs are left alone
strip_names_from_jobs_noop(mapping, names) == mapping

strip_names_from_jobs(mapping, names) ==
    IF Mapping_contains_key(mapping, "jobs") /\ Mapping_get(mapping, "jobs").kind = "seq"
    THEN LET kept == SelectSeq(Mapping_get(mapping, "jobs").items,
                               LAMBDA job : job_name(job) = NoName
                                            \/ ~Contains(names, job_name(job)))
         IN  IF Len(kept) = 0
             THEN Mapping_remove(mapping, "jobs")
             ELSE Mapping_insert(mapping, SeqEntry("jobs", kept))
    ELSE mapping

RECURSIVE InsertAll(_, _)
InsertAll(m, es) ==
    IF Len(es) = 0 THEN m ELSE InsertAll(Mapping_insert(m, Head(es)), Tail(es))

\* mutant: the repo's map replaces the global one
merge_maps_replace(global, repo) == repo

merge_maps(global, repo) ==
    IF global.kind = "map" /\ repo.kind = "map"
    THEN MapEntry(repo.key, InsertAll(global.items, repo.items))
    ELSE repo

\* mutant: a global job is skipped when its name, present or not, equals that
\* of a repo job, so an unnamed repo job removes the unnamed global jobs
merge_jobs_option_compare(global, repo) ==
    IF global.kind = "seq" /\ repo.kind = "seq"
    THEN LET repo_names == [j \in 1..Len(repo.items) |-> job_name(repo.items[j])]
             result == SelectSeq(global.items,
                                 LAMBDA job : ~Contains(repo_names, job_name(job)))
         IN  SeqEntry(repo.key, result \o repo.items)
    ELSE repo

\* mutant: the repo jobs come first
merge_jobs_repo_first(global, repo) ==
    IF global.kind = "seq" /\ repo.kind = "seq"
    THEN LET repo_names == [j \in 1..Len(repo.items) |-> job_name(repo.items[j])]
             result == SelectSeq(global.items,
                                 LAMBDA job : ~(job_name(job) # NoName
                                               /\ Contains(repo_names, job_name(job))))
         IN  SeqEntry(repo.key, repo.items \o result)
    ELSE repo

merge_jobs(global, repo) ==
    IF global.kind = "seq" /\ repo.kind = "seq"
    THEN LET repo_names == [j \in 1..Len(repo.items) |-> job_name(repo.items[j])]
             result == SelectSeq(global.items,
                                 LAMBDA job : ~(job_name(job) # NoName
                                               /\ Contains(repo_names, job_name(job))))
         IN  SeqEntry(repo.key, result \o repo.items)
    ELSE repo

\* mutant: a setting the global definition has is not overwritten
MergeHookEntry_keep_global(global, e) ==
    IF e.key \in {"commands", "scripts"}
    THEN IF Mapping_contains_key(global, e.key)
         THEN Mapping_insert(Mapping_remove(global, e.key),
                             merge_maps(Mapping_get(global, e.key), e))
         ELSE Mapping_insert(global, e)
    ELSE IF e.key = "jobs"
    THEN IF Mapping_contains_key(global, e.key)
         THEN Mapping_insert(Mapping_remove(global, e.key),
                             merge_jobs(Mapping_get(global, e.key), e))
         ELSE Mapping_insert(global, e)
    ELSE IF Mapping_contains_key(global, e.key) THEN global
    ELSE Mapping_insert(global, e)

\* one turn of the loop of merge_hook over the repo's entries
MergeHookEntry(global, e) ==
    IF e.key \in {"commands", "scripts"}
    THEN IF Mapping_contains_key(global, e.key)
         THEN Mapping_insert(Mapping_remove(global, e.key),
                             merge_maps(Mapping_get(global, e.key), e))
         ELSE Mapping_insert(global, e)
    ELSE IF e.key = "jobs"
    THEN IF Mapping_contains_key(global, e.key)
         THEN Mapping_insert(Mapping_remove(global, e.key),
                             merge_jobs(Mapping_get(global, e.key), e))
         ELSE Mapping_insert(global, e)
    ELSE Mapping_insert(global, e)

RECURSIVE MergeHookLoop(_, _)
MergeHookLoop(global, repo) ==
    IF Len(repo) = 0 THEN global
    ELSE MergeHookLoop(MergeHookEntry(global, Head(repo)), Tail(repo))

merge_hook(global, repo) ==
    IF global.isMap /\ repo.isMap
    THEN LET repo_task_names == collect_task_names_from_mapping(repo.ents)
             stripped ==
                 IF Len(repo_task_names) # 0
                 THEN strip_names_from_jobs(
                          strip_names_from_scripts(
                              strip_names_from_commands(global.ents, repo_task_names),
                              repo_task_names),
                          repo_task_names)
                 ELSE global.ents
         IN  MappingValue(MergeHookLoop(stripped, repo.ents))
    ELSE repo

\* mutant: every key the two documents share is merged as a hook definition
MergeConfigsEntry_deep(global, e) ==
    IF Mapping_contains_key(global, e.key)
    THEN Mapping_insert(Mapping_remove(global, e.key),
                        TopEntry(e.key, merge_hook(Mapping_get(global, e.key).v, e.v)))
    ELSE Mapping_insert(global, e)

\* one turn of the loop of merge_configs over the repo's top-level entries
MergeConfigsEntry(global, e) ==
    IF is_hook_name(e.key)
    THEN IF Mapping_contains_key(global, e.key)
         THEN Mapping_insert(Mapping_remove(global, e.key),
                             TopEntry(e.key, merge_hook(Mapping_get(global, e.key).v, e.v)))
         ELSE Mapping_insert(global, e)
    ELSE Mapping_insert(global, e)

RECURSIVE MergeConfigsLoop(_, _)
MergeConfigsLoop(global, repo) ==
    IF Len(repo) = 0 THEN global
    ELSE MergeConfigsLoop(MergeConfigsEntry(global, Head(repo)), Tail(repo))

\* mutant: a repo document that is no mapping leaves the global one in place
merge_configs_keep_global(global, repo) ==
    IF global.isMap /\ repo.isMap
    THEN MappingValue(MergeConfigsLoop(global.ents, repo.ents))
    ELSE IF repo.isMap THEN repo ELSE global

\* mutant: an empty repo mapping is treated like a non-mapping, repo wins
merge_configs_empty_repo_wins(global, repo) ==
    IF global.isMap /\ repo.isMap /\ Len(repo.ents) > 0
    THEN MappingValue(MergeConfigsLoop(global.ents, repo.ents))
    ELSE repo

merge_configs(global, repo) ==
    IF global.isMap /\ repo.isMap
    THEN MappingValue(MergeConfigsLoop(global.ents, repo.ents))
    ELSE repo

\* ------------------------------------------------------------------------
\* Annotation (main.rs)
\* ------------------------------------------------------------------------

\* mutant: stage_fixed is set on the jobs of the hook as well
set_stage_fixed_with_jobs(hook_map) ==
    [i \in 1..Len(hook_map) |->
        IF hook_map[i].key \in {"commands", "jobs"} /\ hook_map[i].kind # "scalar"
        THEN [hook_map[i] EXCEPT !.items =
                 [j \in 1..Len(hook_map[i].items) |->
                     IF hook_map[i].items[j].isMap
                     THEN [hook_map[i].items[j] EXCEPT !.sf = "true"]
                     ELSE hook_map[i].items[j]]]
        ELSE hook_map[i]]

set_stage_fixed(hook_map) ==
    IF Mapping_contains_key(hook_map, "commands")
       /\ Mapping_get(hook_map, "commands").kind = "map"
    THEN LET commands == Mapping_get(hook_map, "commands").items
         IN  Mapping_insert(hook_map, MapEntry("commands",
                 [j \in 1..Len(commands) |->
                     IF commands[j].isMap
                     THEN [commands[j] EXCEPT !.sf = "true"]
                     ELSE commands[j]]))
    ELSE hook_map

\* mutant: a hook that declares parallel itself keeps its own value
AnnotateEntry_keep_declared(e) ==
    IF e.v.isMap /\ is_hook_name(e.key)
    THEN LET par == IF ~Contains(SERIAL_HOOKS, e.key)
                       /\ ~Mapping_contains_key(e.v.ents, "parallel")
                    THEN Mapping_insert(e.v.ents, ScalarEntry("parallel", "true"))
                    ELSE e.v.ents
             stg == IF e.key = "pre-commit" \/ e.key = "pre-merge-commit"
                    THEN set_stage_fixed(par)
                    ELSE par
         IN  TopEntry(e.key, MappingValue(stg))
    ELSE e

\* mutant: every top-level mapping is annotated, hook name or not
AnnotateEntry_any_key(e) ==
    IF e.v.isMap
    THEN LET par == IF ~Contains(SERIAL_HOOKS, e.key)
                    THEN Mapping_insert(e.v.ents, ScalarEntry("parallel", "true"))
                    ELSE e.v.ents
             stg == IF e.key = "pre-commit" \/ e.key = "pre-merge-commit"
                    THEN set_stage_fixed(par)
                    ELSE par
         IN  TopEntry(e.key, MappingValue(stg))
    ELSE e

\* the body of the loop of annotate_hooks, for one top-level entry
AnnotateEntry(e) ==
    IF e.v.isMap /\ is_hook_name(e.key)
    THEN LET par == IF ~Contains(SERIAL_HOOKS, e.key)
                    THEN Mapping_insert(e.v.ents, ScalarEntry("parallel", "true"))
                    ELSE e.v.ents
             stg == IF e.key = "pre-commit" \/ e.key = "pre-merge-commit"
                    THEN set_stage_fixed(par)
                    ELSE par
         IN  TopEntry(e.key, MappingValue(stg))
    ELSE e

annotate_hooks(config) ==
    IF ~config.isMap THEN config
    ELSE MappingValue([i \in 1..Len(config.ents) |-> AnnotateEntry(config.ents[i])])

\* ------------------------------------------------------------------------
\* Adapters (adapters/pre_commit.rs, adapters/husky.rs, adapters/hooks_dir.rs,
\* adapters/mod.rs)
\*
\* The repository root is seen through three records:
\*   preCommit  [st, cfg]: .pre-commit-config.yaml is "absent", a directory
\*              ("dir"), a file that cannot be read or parsed ("bad"), or a
\*              file ("ok") that parses to cfg, a PreCommitConfig;
\*   husky      [dir, entries]: .husky is a directory or not, and its
\*              entries;
\*   hooksDirs  one record [exists, files] for each of HOOKS_DIR_NAMES.
\* A directory entry is [stem, suffix, kind]: its name is stem when suffix
\* is "" and stem-suffix otherwise, kind tells a regular file from a
\* directory and from a symbolic link.
\* An Option<Value> is a record [some, v].
\* ------------------------------------------------------------------------

None == [some |-> FALSE, v |-> Null]

Some(v) == [some |-> TRUE, v |-> v]

RECURSIVE Join(_, _)
Join(parts, sep) ==
    IF Len(parts) = 0 THEN ""
    ELSE IF Len(parts) = 1 THEN parts[1]
    ELSE parts[1] \o sep \o Join(Tail(parts), sep)

\* --- pre-commit ---------------------------------------------------------

type_to_extensions(ty) ==
    CASE ty = "python" -> <<"py">>
      [] ty = "javascript" -> <<"js">>
      [] ty = "jsx" -> <<"jsx">>
      [] ty = "typescript" -> <<"ts">>
      [] ty = "tsx" -> <<"tsx">>
      [] ty = "ruby" -> <<"rb">>
      [] ty = "rust" -> <<"rs">>
      [] ty = "go" -> <<"go">>
      [] ty = "java" -> <<"java">>
      [] ty = "c" -> <<"c">>
      [] ty \in {"c++", "cpp"} -> <<"cpp">>
      [] ty \in {"c#", "csharp"} -> <<"cs">>
      [] ty = "yaml" -> <<"yml", "yaml">>
      [] ty = "json" -> <<"json">>
      [] ty = "toml" -> <<"toml">>
      [] ty = "markdown" -> <<"md">>
      [] ty \in {"shell", "bash", "zsh", "sh"} -> <<"sh">>
      [] ty = "css" -> <<"css">>
      [] ty = "scss" -> <<"scss">>
      [] ty = "html" -> <<"html">>
      [] ty = "xml" -> <<"xml">>
      [] ty = "sql" -> <<"sql">>
      [] ty = "swift" -> <<"swift">>
      [] ty = "kotlin" -> <<"kt">>
      [] ty = "scala" -> <<"scala">>
      [] ty = "haskell" -> <<"hs">>
      [] ty = "lua" -> <<"lua">>
      [] ty = "perl" -> <<"pl">>
      [] ty = "php" -> <<"php">>
      [] ty = "r" -> <<"R">>
      [] OTHER -> <<>>

\* every extension of the table, in the order sort_unstable gives strings
\* (byte order)
ExtensionsSorted ==
    << "R", "c", "cpp", "cs", "css", "go", "hs", "html", "java", "js", "json",
       "jsx", "kt", "lua", "md", "php", "pl", "py", "rb", "rs", "scala",
       "scss", "sh", "sql", "swift", "toml", "ts", "tsx", "xml", "yaml", "yml" >>

RECURSIVE ExtendAll(_)
ExtendAll(types) ==
    IF Len(types) = 0 THEN <<>>
    ELSE type_to_extensions(Head(types)) \o ExtendAll(Tail(types))

\* sort_unstable followed by dedup
SortDedup(extensions) ==
    SelectSeq(ExtensionsSorted, LAMBDA x : Contains(extensions, x))

\* mutant: types_or is left out
types_to_glob_types_only(types, types_or) ==
    LET extensions == SortDedup(ExtendAll(types))
    IN  IF Len(extensions) = 0 THEN Absent
        ELSE IF Len(extensions) = 1 THEN "*." \o extensions[1]
        ELSE "*.{" \o Join(extensions, ",") \o "}"

\* the glob, or Absent for None
types_to_glob(types, types_or) ==
    LET extensions == SortDedup(ExtendAll(types) \o ExtendAll(types_or))
    IN  IF Len(extensions) = 0 THEN Absent
        ELSE IF Len(extensions) = 1 THEN "*." \o extensions[1]
        ELSE "*.{" \o Join(extensions, ",") \o "}"

\* mutant: default_stages is used whenever it is not empty
hook_matches_stage_default_first(hook, default_stages, hook_name) ==
    LET stages == IF Len(default_stages) = 0 THEN hook.stages ELSE default_stages
    IN  Len(stages) = 0 \/ Contains(stages, hook_name)

hook_matches_stage(hook, default_stages, hook_name) ==
    LET stages == IF Len(hook.stages) = 0 THEN default_stages ELSE hook.stages
    IN  Len(stages) = 0 \/ Contains(stages, hook_name)

\* the command mapping of a hook that has an entry, keyed by the hook's id
translate_hook(hook) ==
    LET run_parts == <<hook.entry>> \o hook.args
                     \o (IF hook.pass_filenames THEN <<"{staged_files}">> ELSE <<>>)
    IN  [TaskSpec(hook.id, NoName, Join(run_parts, " ")) EXCEPT
            !.files = hook.files,
            !.exclude = hook.exclude,
            !.glob = types_to_glob(hook.types, hook.types_or)]

RECURSIVE PreCommitHooks(_, _, _, _)
PreCommitHooks(commands, hooks, default_stages, hook_name) ==
    IF Len(hooks) = 0 THEN commands
    ELSE LET hook == Head(hooks)
             next == IF hook_matches_stage(hook, default_stages, hook_name)
                        /\ hook.entry # Absent
                     THEN Mapping_insert(commands, translate_hook(hook))
                     ELSE commands
         IN  PreCommitHooks(next, Tail(hooks), default_stages, hook_name)

RECURSIVE PreCommitRepos(_, _, _, _)
PreCommitRepos(commands, repos, default_stages, hook_name) ==
    IF Len(repos) = 0 THEN commands
    ELSE LET repo == Head(repos)
             next == IF repo.repo # "local" THEN commands
                     ELSE PreCommitHooks(commands, repo.hooks, default_stages, hook_name)
         IN  PreCommitRepos(next, Tail(repos), default_stages, hook_name)

HookDocument(hook_name, commands) ==
    MappingValue(<< TopEntry(hook_name, MappingValue(<< MapEntry("commands", commands) >>)) >>)

\* mutant: the file is detected only when it parses
PreCommitAdapter_detect_parsed(pre) == pre.st = "ok"

PreCommitAdapter_detect(pre) == pre.st \in {"bad", "ok"}

PreCommitAdapter_generate_config(pre, hook_name) ==
    IF pre.st # "ok" THEN None
    ELSE LET commands == PreCommitRepos(<<>>, pre.cfg.repos, pre.cfg.default_stages,
                                        hook_name)
         IN  IF Len(commands) = 0 THEN None
             ELSE Some(HookDocument(hook_name, commands))

\* --- directory entries --------------------------------------------------

FileName(f) == IF f.suffix = "" THEN f.stem ELSE f.stem \o "-" \o f.suffix

\* Path::is_file follows symbolic links
PathIsFile(f) == f.kind \in {"file", "symlink_file"}

\* mutant: no entry is taken for a symbolic link
IsSymlink_never(f) == FALSE

IsSymlink(f) == f.kind \in {"symlink_file", "symlink_dir"}

\* --- husky --------------------------------------------------------------

HuskyAdapter_detect(hsk) == hsk.dir

\* mutant: the script is not looked for
HuskyAdapter_generate_config_unchecked(hsk, hook_name) ==
    Some(HookDocument(hook_name,
             << TaskSpec("husky", NoName, ".husky/" \o hook_name) >>))

HuskyAdapter_generate_config(hsk, hook_name) ==
    IF ~\E f \in hsk.entries : FileName(f) = hook_name /\ PathIsFile(f) THEN None
    ELSE Some(HookDocument(hook_name,
                  << TaskSpec("husky", NoName, ".husky/" \o hook_name) >>))

\* --- hooks directory ----------------------------------------------------

HOOKS_DIR_NAMES == << ".hooks", "git-hooks", ".git/hooks" >>

\* the suffixes of the script names of the model, in the order sort gives
\* the names of one hook (the bare hook name first)
SuffixesSorted == << "", "checkstyle", "fix: all", "lint" >>

\* the suffixes that do not read back as written from the YAML text
\* generate_config formats: `: ` inside a plain scalar starts a mapping value
YamlUnsafe == {"fix: all"}

\* mutant: the last directory that exists is used
find_hooks_dir_last(dirs) ==
    IF \E i \in 1..Len(HOOKS_DIR_NAMES) : dirs[i].exists
    THEN CHOOSE i \in 1..Len(HOOKS_DIR_NAMES) :
            dirs[i].exists /\ \A j \in (i + 1)..Len(HOOKS_DIR_NAMES) : ~dirs[j].exists
    ELSE 0

\* the index in HOOKS_DIR_NAMES of the first directory that exists, 0 for None
find_hooks_dir(dirs) ==
    IF \E i \in 1..Len(HOOKS_DIR_NAMES) : dirs[i].exists
    THEN CHOOSE i \in 1..Len(HOOKS_DIR_NAMES) :
            dirs[i].exists /\ \A j \in 1..(i - 1) : ~dirs[j].exists
    ELSE 0

\* the files of the directory that pass the filters, sorted by name
matching_scripts(files, hook_name, skip_symlinks) ==
    LET kept == {f \in files : /\ ~(skip_symlinks /\ IsSymlink(f))
                               /\ PathIsFile(f)
                               /\ f.stem = hook_name}
        sortedSuffixes == SelectSeq(SuffixesSorted,
                                    LAMBDA x : \E f \in kept : f.suffix = x)
    IN  [i \in 1..Len(sortedSuffixes) |->
            [stem |-> hook_name, suffix |-> sortedSuffixes[i]]]

HooksDirAdapter_detect(dirs) == find_hooks_dir(dirs) # 0

HooksDirCommand(dir_name, script) ==
    TaskSpec(IF script.suffix = "" THEN "hooks-dir" ELSE "hooks-dir-" \o script.suffix,
             NoName,
             dir_name \o "/" \o FileName(script))

\* serde_yaml::from_str(&yaml).ok() on the text formatted from the scripts:
\* the text is no YAML document when a name in it is not a plain scalar
HooksDirParse(hook_name, dir_name, scripts) ==
    IF \E i \in 1..Len(scripts) : scripts[i].suffix \in YamlUnsafe THEN None
    ELSE Some(HookDocument(hook_name,
             [i \in 1..Len(scripts) |-> HooksDirCommand(dir_name, scripts[i])]))

HooksDirAdapter_generate_config(dirs, hook_name) ==
    IF find_hooks_dir(dirs) = 0 THEN None
    ELSE LET d == find_hooks_dir(dirs)
             dir_name == HOOKS_DIR_NAMES[d]
             skip_symlinks == dir_name = ".git/hooks"
             scripts == matching_scripts(dirs[d].files, hook_name, skip_symlinks)
         IN  IF Len(scripts) = 0 THEN None
             ELSE HooksDirParse(hook_name, dir_name, scripts)

\* --- registry -----------------------------------------------------------

\* mutant: husky is tried before pre-commit
all_adapters_husky_first == << "husky", "pre-commit", "hooks-dir" >>

all_adapters == << "pre-commit", "husky", "hooks-dir" >>

AdapterDetect(name, pre, hsk, dirs) ==
    CASE name = "pre-commit" -> PreCommitAdapter_detect(pre)
      [] name = "husky" -> HuskyAdapter_detect(hsk)
      [] name = "hooks-dir" -> HooksDirAdapter_detect(dirs)

AdapterGenerate(name, pre, hsk, dirs, hook_name) ==
    CASE name = "pre-commit" -> PreCommitAdapter_generate_config(pre, hook_name)
      [] name = "husky" -> HuskyAdapter_generate_config(hsk, hook_name)
      [] name = "hooks-dir" -> HooksDirAdapter_generate_config(dirs, hook_name)

NoAdapter == "none"

\* the name of the first adapter of all_adapters whose detect is true
detect_adapter(pre, hsk, dirs) ==
    LET found == SelectSeq(all_adapters, LAMBDA a : AdapterDetect(a, pre, hsk, dirs))
    IN  IF Len(found) = 0 THEN NoAdapter ELSE found[1]

\* mutant: the adapter's document is handed on as generated
adapter_config_for_plain(pre, hsk, dirs, hook_name) ==
    IF detect_adapter(pre, hsk, dirs) = NoAdapter THEN None
    ELSE AdapterGenerate(detect_adapter(pre, hsk, dirs), pre, hsk, dirs, hook_name)

\* adapter_config_for(root, Some(hook_name))
\* mutant: when a detected adapter has nothing for the hook the next
\* detected adapter is asked
adapter_config_for_fallthrough(pre, hsk, dirs, hook_name) ==
    LET able == SelectSeq(all_adapters,
                    LAMBDA a : /\ AdapterDetect(a, pre, hsk, dirs)
                               /\ AdapterGenerate(a, pre, hsk, dirs, hook_name).some)
    IN  IF Len(able) = 0 THEN None
        ELSE Some(annotate_hooks(AdapterGenerate(able[1], pre, hsk, dirs, hook_name).v))

adapter_config_for(pre, hsk, dirs, hook_name) ==
    IF detect_adapter(pre, hsk, dirs) = NoAdapter THEN None
    ELSE LET config == AdapterGenerate(detect_adapter(pre, hsk, dirs),
                                       pre, hsk, dirs, hook_name)
         IN  IF config.some THEN Some(annotate_hooks(config.v)) ELSE None

\* the loop of adapter_config_for(root, None) over the hook names
RECURSIVE CombineHooks(_, _, _, _, _, _)
CombineHooks(combined, names, name, pre, hsk, dirs) ==
    IF Len(names) = 0 THEN combined
    ELSE LET config == AdapterGenerate(name, pre, hsk, dirs, Head(names))
             next == IF ~config.some THEN combined
                     ELSE IF combined.some THEN Some(merge_configs(combined.v, config.v))
                     ELSE config
         IN  CombineHooks(next, Tail(names), name, pre, hsk, dirs)

\* what adapter_config_for(root, None) combines before it annotates
combined_config(pre, hsk, dirs) ==
    IF detect_adapter(pre, hsk, dirs) = NoAdapter THEN None
    ELSE CombineHooks(None, GIT_HOOKS, detect_adapter(pre, hsk, dirs), pre, hsk, dirs)

\* mutant: the combined document is not annotated
adapter_config_for_all_plain(pre, hsk, dirs) == combined_config(pre, hsk, dirs)

\* adapter_config_for(root, None)
adapter_config_for_all(pre, hsk, dirs) ==
    LET combined == combined_config(pre, hsk, dirs)
    IN  IF combined.some THEN Some(annotate_hooks(combined.v)) ELSE None

\* mutant: the adapter's document is dropped
resolve_config_without_adapter(global, repo, rv, adapter_config) ==
    IF repo THEN merge_configs(global, rv) ELSE global

\* --- configuration discovery (main.rs) ----------------------------------

\* a candidate path of find_config: <dir>/<name>.<ext>
Candidate(name, ext) == [name |-> name, ext |-> ext]

\* find_config returning None
NoCandidate == Candidate("", "")

\* mutant: the four-letter spelling is tried first
LEFTHOOK_EXTENSIONS_yaml_first == << "yaml", "yml", "json", "jsonc", "toml" >>

LEFTHOOK_EXTENSIONS == << "yml", "yaml", "json", "jsonc", "toml" >>

\* the candidates of one extension, in the order they are tried
candidates(ext, check_dot_config) ==
    IF check_dot_config
    THEN << Candidate("lefthook", ext), Candidate(".lefthook", ext),
            Candidate(".config/lefthook", ext) >>
    ELSE << Candidate("lefthook", ext), Candidate(".lefthook", ext) >>

\* Path::is_file of a candidate in a directory given by its entries
CandidateIsFile(dir, c) ==
    \E f \in dir : f.name = c.name /\ f.ext = c.ext /\ f.kind = "file"

RECURSIVE FindIn(_, _)
FindIn(dir, cs) ==
    IF Len(cs) = 0 THEN NoCandidate
    ELSE IF CandidateIsFile(dir, Head(cs)) THEN Head(cs)
    ELSE FindIn(dir, Tail(cs))

RECURSIVE FindByExtension(_, _, _)
FindByExtension(dir, exts, check_dot_config) ==
    IF Len(exts) = 0 THEN NoCandidate
    ELSE LET hit == FindIn(dir, candidates(Head(exts), check_dot_config))
         IN  IF hit # NoCandidate THEN hit
             ELSE FindByExtension(dir, Tail(exts), check_dot_config)

find_config(dir, check_dot_config) ==
    FindByExtension(dir, LEFTHOOK_EXTENSIONS, check_dot_config)

\* resolve_config once the repo file, if any, was read
resolve_config(global, repo, rv, adapter_config) ==
    IF repo THEN merge_configs(global, rv)
    ELSE IF adapter_config.some THEN merge_configs(global, adapter_config.v)
    ELSE global

\* ------------------------------------------------------------------------
\* The environment of a run: the files the program looks at
\* ------------------------------------------------------------------------

\* a configuration file: there is none ("none"), it cannot be read or parsed
\* ("bad"), or it parses to doc ("ok")
NoFile == [st |-> "none", doc |-> Null]

BadFile == [st |-> "bad", doc |-> Null]

File(doc) == [st |-> "ok", doc |-> doc]

PreCommitConfig(repos, default_stages) ==
    [repos |-> repos, default_stages |-> default_stages]

NoPreCommitConfig == PreCommitConfig(<<>>, <<>>)

PreCommitFile(st, cfg) == [st |-> st, cfg |-> cfg]

NoPreCommit == PreCommitFile("absent", NoPreCommitConfig)

Repo(repo, hooks) == [repo |-> repo, hooks |-> hooks]

\* a hook as deserialized: the serde defaults for what is not written
Hook(id, entry) ==
    [id |-> id, entry |-> entry, args |-> <<>>, stages |-> <<>>,
     files |-> Absent, exclude |-> Absent, pass_filenames |-> TRUE,
     types |-> <<>>, types_or |-> <<>>]

NoHusky == [dir |-> FALSE, entries |-> {}]

Husky(entries) == [dir |-> TRUE, entries |-> entries]

NoDir == [exists |-> FALSE, files |-> {}]

Dir(files) == [exists |-> TRUE, files |-> files]

DirFile(stem, suffix, kind) == [stem |-> stem, suffix |-> suffix, kind |-> kind]

NoHooksDirs == << NoDir, NoDir, NoDir >>

\* the result of Command::status: the engine was not started ("none"), could
\* not be started ("error"), or exited with code ("exited")
NoStatus == [st |-> "none", code |-> 0]

LaunchError == [st |-> "error", code |-> 0]

Exited(code) == [st |-> "exited", code |-> code]

\* nothing was logged with error!
NoMessage == "none"

\* find_config and merge_jobs are not applied on their own
NotSearched ==
    /\ searchDir = {} /\ dotConfig = FALSE /\ foundConfig = NoCandidate
    /\ gJobs = ScalarEntry("jobs", "") /\ oJobs = ScalarEntry("jobs", "")
    /\ mJobs = ScalarEntry("jobs", "")

\* the program is not run: the operations above are applied on their own
NoEnvironment ==
    /\ command = "" /\ hookName = "" /\ globalFile = NoFile /\ inRepo = FALSE /\ repoFile = NoFile
    /\ preCommit = NoPreCommit /\ husky = NoHusky /\ hooksDirs = NoHooksDirs

NotRun ==
    /\ globalDoc = Null /\ repoFound = FALSE /\ adapter = NoAdapter /\ generated = None
    /\ adapterConfig = None
    /\ merged = Null /\ temp = "none" /\ tempContent = Null /\ dispatched = Null
    /\ printed = Null
    /\ status = NoStatus /\ logged = NoMessage /\ exit = "none"

\* ------------------------------------------------------------------------
\* Input documents: what a configuration file parses to
\* ------------------------------------------------------------------------

SeqsUpTo(S, n) == UNION {[1..k -> S] : k \in 0..n}

\* the `run` string of the i-th entry written by `side` ("g" global, "o" overlay)
Run(side, i) == side \o ToString(i)

\* what one written line of a hook definition adds: a task under commands,
\* scripts or jobs (a job with or without a name), or the parallel setting
HookSlots ==
    { <<"commands", "a">>, <<"commands", "b">>, <<"scripts", "a">>,
      <<"jobs", "a">>, <<"jobs", "b">>, <<"jobs", NoName>>, <<"parallel", "">> }

\* mapping keys are unique; only jobs may repeat a name
ValidHookSlots(s) ==
    \A i, j \in 1..Len(s) : (i < j /\ s[i] = s[j]) => s[i][1] = "jobs"

SectionItems(m, key) ==
    IF Mapping_contains_key(m, key) THEN Mapping_get(m, key).items ELSE <<>>

AddHookSlot(m, side, slot, i) ==
    IF slot[1] = "parallel"
    THEN Mapping_insert(m, ScalarEntry("parallel", side))
    ELSE IF slot[1] = "jobs"
    THEN Mapping_insert(m, SeqEntry("jobs",
             Append(SectionItems(m, "jobs"), TaskSpec("", slot[2], Run(side, i)))))
    ELSE Mapping_insert(m, MapEntry(slot[1],
             Append(SectionItems(m, slot[1]), TaskSpec(slot[2], NoName, Run(side, i)))))

RECURSIVE BuildHookEnts(_, _, _, _)
BuildHookEnts(m, side, s, i) ==
    IF i > Len(s) THEN m
    ELSE BuildHookEnts(AddHookSlot(m, side, s[i], i), side, s, i + 1)

BuildHook(side, s) == MappingValue(BuildHookEnts(<<>>, side, s, 1))

HookDefs(side, n) ==
    { BuildHook(side, s) : s \in {t \in SeqsUpTo(HookSlots, n) : ValidHookSlots(t)} }

\* the values a top-level key is given in a document
TopValues(side) ==
    { Scalar(side),
      BuildHook(side, << <<"commands", "a">>, <<"parallel", "">> >>),
      BuildHook(side, << <<"jobs", "a">> >>) }

TopKeys == {"pre-push", "pre-commit", "output"}

ValidTopSlots(s) == \A i, j \in 1..Len(s) : i < j => s[i].key # s[j].key

Docs(side) ==
    { MappingValue(s) :
        s \in {t \in SeqsUpTo({TopEntry(k, v) : k \in TopKeys, v \in TopValues(side)},
                              MaxTopKeys) : ValidTopSlots(t)} }
    \cup {Null}

\* ------------------------------------------------------------------------
\* SpecMerge: merge_hook and merge_configs applied to parsed inputs
\* ------------------------------------------------------------------------

InitMergeHook ==
    /\ pc = "hook"
    /\ gHook \in HookDefs("g", MaxGlobalEntries)
    /\ oHook \in HookDefs("o", MaxOverlayEntries)
    /\ mHook = Null
    /\ gDoc = Null /\ oDoc = Null /\ mDoc = Null
    /\ annIn = Null /\ annOut = Null
    /\ NoEnvironment /\ NotRun /\ NotSearched

InitMergeConfigs ==
    /\ pc = "doc"
    /\ gDoc \in Docs("g")
    /\ oDoc \in Docs("o")
    /\ mDoc = Null
    /\ gHook = Null /\ oHook = Null /\ mHook = Null
    /\ annIn = Null /\ annOut = Null
    /\ NoEnvironment /\ NotRun /\ NotSearched

InitMerge == InitMergeHook \/ InitMergeConfigs

MergeHook ==
    /\ pc = "hook"
    /\ mHook' = merge_hook(gHook, oHook)
    /\ pc' = "hook_merged"
    /\ UNCHANGED <<gHook, oHook, gDoc, oDoc, mDoc, annVars, envVars, findVars, jobsVars, runVars>>

MergeConfigs ==
    /\ pc = "doc"
    /\ mDoc' = merge_configs(gDoc, oDoc)
    /\ pc' = "doc_merged"
    /\ UNCHANGED <<gDoc, oDoc, gHook, oHook, mHook, annVars, envVars, findVars, jobsVars, runVars>>

NextMerge == MergeHook \/ MergeConfigs

SpecMerge == InitMerge /\ [][NextMerge]_vars

\* ------------------------------------------------------------------------
\* Tasks of a hook definition, for the statements below
\* ------------------------------------------------------------------------

Containers(h) ==
    { h.ents[i] : i \in {x \in 1..Len(h.ents) :
                           \/ h.ents[x].key \in {"commands", "scripts"}
                              /\ h.ents[x].kind = "map"
                           \/ h.ents[x].key = "jobs" /\ h.ents[x].kind = "seq"} }

\* every task of hook value h: its container, its position there, its spec
Occ(h) ==
    UNION { { [c |-> e.key, pos |-> j, t |-> e.items[j]] : j \in 1..Len(e.items) } :
            e \in Containers(h) }

Identity(o) == IF o.c = "jobs" THEN job_name(o.t) ELSE o.t.key

OccOf(h, id) == {o \in Occ(h) : Identity(o) = id}

Ids(h) == {Identity(o) : o \in Occ(h)} \ {NoName}

Placed(S) == {<<o.c, o.t>> : o \in S}

DupFree(h) == \A id \in Ids(h) : Cardinality(OccOf(h, id)) = 1

Unnamed(h) ==
    SelectSeq(SectionItems(h.ents, "jobs"), LAMBDA job : job_name(job) = NoName)

EmptyMapping == MappingValue(<<>>)

\* ------------------------------------------------------------------------
\* C1
\* ------------------------------------------------------------------------

\* C1 as stated: for every task identity present in both the global and the
\* overlay hook definition, merge_hook's result holds exactly one task with
\* that identity, it is the overlay's task spec and it sits in the container
\* the overlay used.
C1_ExactlyOneOverlayVersion ==
    pc = "hook_merged" =>
        \A id \in Ids(gHook) \cap Ids(oHook) :
            /\ Cardinality(OccOf(mHook, id)) = 1
            /\ Placed(OccOf(mHook, id)) \subseteq Placed(OccOf(oHook, id))

\* C1 amended: for every task identity present in both definitions, the tasks
\* of that identity in merge_hook's result are exactly the overlay's tasks of
\* that identity, each in the container the overlay used and as often as the
\* overlay declares it (so exactly once when the overlay declares it once);
\* the global version survives in no container.
C1_OverlayVersionOnly ==
    pc = "hook_merged" =>
        \A id \in Ids(gHook) \cap Ids(oHook) :
            /\ Placed(OccOf(mHook, id)) = Placed(OccOf(oHook, id))
            /\ Cardinality(OccOf(mHook, id)) = Cardinality(OccOf(oHook, id))
            /\ Cardinality(OccOf(oHook, id)) = 1 => Cardinality(OccOf(mHook, id)) = 1

\* a shared identity that changes format: global declares it under commands
\* and jobs, the overlay once under scripts
C1_Witness ==
    /\ pc = "hook_merged"
    /\ \E id \in Ids(gHook) \cap Ids(oHook) :
          /\ {o.c : o \in OccOf(gHook, id)} = {"commands", "jobs"}
          /\ {o.c : o \in OccOf(oHook, id)} = {"scripts"}
          /\ Cardinality(OccOf(mHook, id)) = 1

\* ------------------------------------------------------------------------
\* C2
\* ------------------------------------------------------------------------

\* C2: when no task identity occurs twice in the global definition and none
\* occurs twice in the overlay definition, merge_hook's result holds each
\* task identity at most once, counted across commands keys, scripts keys
\* and the names of jobs.
C2_NoDuplicateIdentity ==
    (pc = "hook_merged" /\ DupFree(gHook) /\ DupFree(oHook)) => DupFree(mHook)

C2_Witness ==
    /\ pc = "hook_merged"
    /\ DupFree(gHook) /\ DupFree(oHook)
    /\ \E id \in Ids(gHook) \cap Ids(oHook) :
          {o.c : o \in OccOf(gHook, id)} # {o.c : o \in OccOf(oHook, id)}
    /\ Ids(gHook) \ Ids(oHook) # {}

\* ------------------------------------------------------------------------
\* C3
\* ------------------------------------------------------------------------

\* C3: the unnamed jobs of merge_hook's result are all unnamed jobs of the
\* global definition followed by all unnamed jobs of the overlay definition:
\* none is removed, whatever identities the overlay declares.
C3_UnnamedJobsKept ==
    pc = "hook_merged" => Unnamed(mHook) = Unnamed(gHook) \o Unnamed(oHook)

C3_Witness ==
    /\ pc = "hook_merged"
    /\ Len(Unnamed(gHook)) > 0
    /\ Len(Unnamed(oHook)) > 0
    /\ Ids(gHook) \cap Ids(oHook) # {}

\* ------------------------------------------------------------------------
\* C4
\* ------------------------------------------------------------------------

TopValue(doc, k) == Mapping_get(doc.ents, k).v

KeySet(m) == {m[i].key : i \in 1..Len(m)}

\* C4: merge_configs on two mappings: an overlay key that is a hook name and
\* that global has is merge_hook of the two values, any other overlay key
\* has exactly the overlay's value, a key only global has keeps global's
\* value, and no other key appears.
C4_MergeConfigsPerKey ==
    (pc = "doc_merged" /\ gDoc.isMap /\ oDoc.isMap) =>
        /\ mDoc.isMap
        /\ KeySet(mDoc.ents) = KeySet(gDoc.ents) \cup KeySet(oDoc.ents)
        /\ Len(mDoc.ents) = Cardinality(KeySet(mDoc.ents))
        /\ \A k \in KeySet(oDoc.ents) :
              TopValue(mDoc, k) =
                  IF is_hook_name(k) /\ k \in KeySet(gDoc.ents)
                  THEN merge_hook(TopValue(gDoc, k), TopValue(oDoc, k))
                  ELSE TopValue(oDoc, k)
        /\ \A k \in KeySet(gDoc.ents) \ KeySet(oDoc.ents) :
              TopValue(mDoc, k) = TopValue(gDoc, k)

\* a shared hook key, a shared non-hook key whose two values are mappings,
\* so that a deep merge would differ from the replacement
C4_Witness ==
    /\ pc = "doc_merged" /\ gDoc.isMap /\ oDoc.isMap
    /\ \E k \in KeySet(gDoc.ents) \cap KeySet(oDoc.ents) :
          /\ ~is_hook_name(k)
          /\ TopValue(gDoc, k).isMap /\ TopValue(oDoc, k).isMap
          /\ merge_hook(TopValue(gDoc, k), TopValue(oDoc, k)) # TopValue(oDoc, k)
          /\ TopValue(mDoc, k) = TopValue(oDoc, k)
    /\ \E k \in KeySet(gDoc.ents) \ KeySet(oDoc.ents) : is_hook_name(k)

\* ------------------------------------------------------------------------
\* C5
\* ------------------------------------------------------------------------

\* C5 as stated: merging any global document with an empty overlay returns
\* the global document unchanged, and likewise merge_hook with an empty
\* overlay hook definition.
C5_IdentityLaw ==
    /\ (pc = "doc_merged" /\ oDoc = EmptyMapping) => mDoc = gDoc
    /\ (pc = "hook_merged" /\ oHook = EmptyMapping) => mHook = gHook

\* C5 amended: merging a global document that is a mapping with an empty
\* overlay mapping returns the global document unchanged (same keys, values
\* and key order); likewise merge_hook of a global hook definition that is a
\* mapping with an empty overlay hook definition.
C5_IdentityLawOnMappings ==
    /\ (pc = "doc_merged" /\ gDoc.isMap /\ oDoc = EmptyMapping) => mDoc = gDoc
    /\ (pc = "hook_merged" /\ gHook.isMap /\ oHook = EmptyMapping) => mHook = gHook

C5_Witness ==
    /\ pc = "hook_merged"
    /\ oHook = EmptyMapping
    /\ Len(gHook.ents) = MaxGlobalEntries
    /\ mHook = gHook

\* ------------------------------------------------------------------------
\* C6
\* ------------------------------------------------------------------------

\* the key order C6 describes: global's keys that are still present, in
\* global's order, then the keys new from the overlay, in overlay order
ClaimedKeyOrder(g, o, m) ==
    SelectSeq(Mapping_keys(g), LAMBDA k : k \in KeySet(m))
    \o SelectSeq(Mapping_keys(o), LAMBDA k : k \notin KeySet(g))

\* no container of the global definition loses all its tasks to the overlay
NoContainerEmptied(g, o) ==
    \A e \in Containers(g) :
        \E x \in OccOf(g, NoName) \cup UNION {OccOf(g, id) : id \in Ids(g) \ Ids(o)} :
            x.c = e.key

\* C6: in the result of merge_configs and of merge_hook the keys that came
\* from global appear in the same relative order as in global (a key the
\* overlay also sets keeps its global position), and the keys new from the
\* overlay follow in overlay order.  (For merge_hook the statement is held
\* to the definitions in which no global container is emptied and supplied
\* anew by the overlay, where "its global position" is beyond doubt.)
C6_KeyOrderPreserved ==
    /\ (pc = "doc_merged" /\ gDoc.isMap /\ oDoc.isMap) =>
          Mapping_keys(mDoc.ents) = ClaimedKeyOrder(gDoc.ents, oDoc.ents, mDoc.ents)
    /\ (pc = "hook_merged" /\ NoContainerEmptied(gHook, oHook)) =>
          Mapping_keys(mHook.ents) = ClaimedKeyOrder(gHook.ents, oHook.ents, mHook.ents)

\* ------------------------------------------------------------------------
\* SpecAnnotate: annotate_hooks applied to a document
\* ------------------------------------------------------------------------

\* what one written line of a hook definition adds: a task (a mapping with
\* or without a stage_fixed of its own, or a task that is no mapping) or a
\* parallel setting
AnnSlots ==
    { <<"commands", "a", Absent>>, <<"commands", "b", "false">>,
      <<"commands", "c", "scalar">>, <<"scripts", "a", Absent>>,
      <<"jobs", "a", Absent>>, <<"parallel", "", "false">> }

ValidAnnSlots(s) ==
    \A i, j \in 1..Len(s) :
        (i < j /\ s[i][1] = s[j][1] /\ s[i][2] = s[j][2]) => s[i][1] = "jobs"

AnnTask(slot, i) ==
    LET key  == IF slot[1] = "jobs" THEN "" ELSE slot[2]
        name == IF slot[1] = "jobs" THEN slot[2] ELSE NoName
    IN  IF slot[3] = "scalar" THEN ScalarTask(key, Run("s", i))
        ELSE [TaskSpec(key, name, Run("r", i)) EXCEPT !.sf = slot[3]]

AddAnnSlot(m, slot, i) ==
    IF slot[1] = "parallel"
    THEN Mapping_insert(m, ScalarEntry("parallel", slot[3]))
    ELSE IF slot[1] = "jobs"
    THEN Mapping_insert(m, SeqEntry("jobs",
             Append(SectionItems(m, "jobs"), AnnTask(slot, i))))
    ELSE Mapping_insert(m, MapEntry(slot[1],
             Append(SectionItems(m, slot[1]), AnnTask(slot, i))))

RECURSIVE BuildAnnEnts(_, _, _)
BuildAnnEnts(m, s, i) ==
    IF i > Len(s) THEN m ELSE BuildAnnEnts(AddAnnSlot(m, s[i], i), s, i + 1)

AnnValues ==
    { MappingValue(BuildAnnEnts(<<>>, s, 1)) :
        s \in {t \in SeqsUpTo(AnnSlots, MaxAnnEntries) : ValidAnnSlots(t)} }
    \cup {Scalar("x")}

AnnKeys == {"pre-push", "pre-commit", "pre-merge-commit", "commit-msg", "output"}

\* the entries written before and after the entry under study
AnnAround ==
    { <<>>,
      << TopEntry("min_version", Scalar("1")) >>,
      << TopEntry("post-merge",
                  MappingValue(BuildAnnEnts(<<>>, << <<"jobs", "a", Absent>> >>, 1))) >> }

AnnFrames == {f \in AnnAround \X AnnAround : Len(f[1]) = 0 \/ f[1] # f[2]}

AnnDocs ==
    { MappingValue(f[1] \o << TopEntry(k, v) >> \o f[2]) :
        k \in AnnKeys, v \in AnnValues, f \in AnnFrames } \cup {Null}

InitAnnotate ==
    /\ pc = "annotate"
    /\ annIn \in AnnDocs
    /\ annOut = Null
    /\ gHook = Null /\ oHook = Null /\ mHook = Null
    /\ gDoc = Null /\ oDoc = Null /\ mDoc = Null
    /\ NoEnvironment /\ NotRun /\ NotSearched

Annotate ==
    /\ pc = "annotate"
    /\ annOut' = annotate_hooks(annIn)
    /\ pc' = "annotated"
    /\ UNCHANGED <<annIn, mergeVars, envVars, findVars, jobsVars, runVars>>

NextAnnotate == Annotate

SpecAnnotate == InitAnnotate /\ [][NextAnnotate]_vars

IsSerial(k) == Contains(SERIAL_HOOKS, k)

IsStaging(k) == k \in {"pre-commit", "pre-merge-commit"}

\* the top-level positions of annIn that hold a recognized hook name with a
\* mapping value
AnnHooks(doc) ==
    {i \in 1..Len(doc.ents) : is_hook_name(doc.ents[i].key) /\ doc.ents[i].v.isMap}

\* the state of the parallel key of a hook mapping
ParallelOf(h) ==
    IF Mapping_contains_key(h.ents, "parallel")
    THEN Mapping_get(h.ents, "parallel").val
    ELSE Absent

\* ------------------------------------------------------------------------
\* C8
\* ------------------------------------------------------------------------

\* C8: annotate_hooks sets parallel = true on every top-level key that is a
\* recognized hook name, has a mapping value and is not in SERIAL_HOOKS,
\* whatever parallel value was there; for a hook in SERIAL_HOOKS the
\* parallel key is neither added nor changed.
C8_ParallelOnNonSerialHooks ==
    (pc = "annotated" /\ annIn.isMap) =>
        /\ annOut.isMap /\ Mapping_keys(annOut.ents) = Mapping_keys(annIn.ents)
        /\ \A i \in AnnHooks(annIn) :
              /\ annOut.ents[i].v.isMap
              /\ ParallelOf(annOut.ents[i].v) =
                    IF IsSerial(annIn.ents[i].key)
                    THEN ParallelOf(annIn.ents[i].v)
                    ELSE "true"

\* a non-serial hook that declared parallel: false, and it is overwritten
C8_Witness ==
    /\ pc = "annotated" /\ annIn.isMap
    /\ \E i \in AnnHooks(annIn) :
          /\ ~IsSerial(annIn.ents[i].key)
          /\ ParallelOf(annIn.ents[i].v) = "false"
          /\ ParallelOf(annOut.ents[i].v) = "true"
    /\ \E i \in AnnHooks(annIn) : ~Mapping_contains_key(annIn.ents[i].v.ents, "parallel")

\* ------------------------------------------------------------------------
\* C9
\* ------------------------------------------------------------------------

\* the stage_fixed field of every task of a top-level value, by container
\* key and position
StageFixedOf(v) ==
    IF ~v.isMap THEN <<>>
    ELSE [i \in 1..Len(v.ents) |->
             [key |-> v.ents[i].key,
              sf  |-> [j \in 1..Len(v.ents[i].items) |-> v.ents[i].items[j].sf]]]

\* what C9 says the stage_fixed fields are after annotate_hooks
ClaimedStageFixed(e) ==
    IF ~e.v.isMap THEN <<>>
    ELSE [i \in 1..Len(e.v.ents) |->
             [key |-> e.v.ents[i].key,
              sf  |-> [j \in 1..Len(e.v.ents[i].items) |->
                          IF /\ is_hook_name(e.key) /\ IsStaging(e.key)
                             /\ e.v.ents[i].key = "commands"
                             /\ e.v.ents[i].kind = "map"
                             /\ e.v.ents[i].items[j].isMap
                          THEN "true"
                          ELSE e.v.ents[i].items[j].sf]]]

\* the entries of a hook mapping that annotate_hooks did not append
Original(out, in) ==
    IF ~out.isMap THEN out
    ELSE MappingValue(SubSeq(out.ents, 1, Len(in.ents)))

\* C9: annotate_hooks sets stage_fixed = true on every mapping-valued entry
\* of the commands map of pre-commit and of pre-merge-commit and on nothing
\* else: no task under another hook name or another top-level key, and no
\* task under jobs or scripts of the two hooks, gains or changes stage_fixed.
C9_StageFixedOnStagingCommands ==
    (pc = "annotated" /\ annIn.isMap) =>
        /\ annOut.isMap /\ Len(annOut.ents) = Len(annIn.ents)
        /\ \A i \in 1..Len(annIn.ents) :
              /\ annOut.ents[i].v.isMap = annIn.ents[i].v.isMap
              /\ StageFixedOf(Original(annOut.ents[i].v, annIn.ents[i].v))
                    = ClaimedStageFixed(annIn.ents[i])

\* a staging hook with a command that had stage_fixed: false, now true, next
\* to a hook that is not a staging hook
C9_Witness ==
    /\ pc = "annotated" /\ annIn.isMap
    /\ \E i \in AnnHooks(annIn) :
          /\ IsStaging(annIn.ents[i].key)
          /\ \E e \in Containers(annIn.ents[i].v) : e.key # "commands"
          /\ \E o \in Occ(annIn.ents[i].v) : o.c = "commands" /\ o.t.sf = "false"
          /\ \A o \in Occ(annOut.ents[i].v) : o.c = "commands" => o.t.sf = "true"
    /\ \E i \in AnnHooks(annIn) : ~IsStaging(annIn.ents[i].key)

\* ------------------------------------------------------------------------
\* SpecAdapter: adapter_config_for applied to a repository root
\* ------------------------------------------------------------------------

HookNames == {"pre-push", "pre-commit"}

\* the hooks written in a .pre-commit-config.yaml
PreCommitHookSet ==
    { Hook("a", "black"),
      [Hook("a", "black") EXCEPT !.args = <<"--check", "-q">>, !.pass_filenames = FALSE],
      [Hook("b", "lint") EXCEPT !.stages = <<"pre-push">>],
      [Hook("b", "lint") EXCEPT !.stages = <<"pre-commit", "pre-push">>,
                                !.files = "^src/", !.exclude = "^vendor/"],
      Hook("c", Absent),
      [Hook("c", "fmt") EXCEPT !.types = <<"yaml">>, !.types_or = <<"python", "yaml">>],
      [Hook("c", "fmt") EXCEPT !.types = <<"python">>],
      [Hook("a", "check") EXCEPT !.types = <<"file">>],
      [Hook("d", "yamllint") EXCEPT !.types = <<"yaml">>] }

\* what one written line of the file adds: a new repo, or a hook of the repo
\* written last
PreCommitSlots ==
    { <<"repo", Repo("local", <<>>)>>, <<"repo", Repo("https://github.com/psf/black", <<>>)>> }
    \cup { <<"hook", h>> : h \in PreCommitHookSet }

\* the first line is a repo
ValidPreCommitSlots(s) == Len(s) > 0 => s[1][1] = "repo"

AddPreCommitSlot(repos, slot) ==
    IF slot[1] = "repo" THEN Append(repos, slot[2])
    ELSE [repos EXCEPT ![Len(repos)].hooks = Append(@, slot[2])]

RECURSIVE BuildRepos(_, _, _)
BuildRepos(repos, s, i) ==
    IF i > Len(s) THEN repos ELSE BuildRepos(AddPreCommitSlot(repos, s[i]), s, i + 1)

PreCommitConfigs ==
    { PreCommitConfig(BuildRepos(<<>>, s, 1), d) :
        s \in {t \in SeqsUpTo(PreCommitSlots, MaxPreCommitEntries) : ValidPreCommitSlots(t)},
        d \in {<<>>, <<"pre-push">>} }

SimplePreCommitConfig ==
    PreCommitConfig(<< Repo("local", << Hook("a", "black") >>) >>, <<>>)

PreCommitPresence ==
    { NoPreCommit, PreCommitFile("dir", NoPreCommitConfig),
      PreCommitFile("bad", NoPreCommitConfig), PreCommitFile("ok", SimplePreCommitConfig) }

\* a directory holds one file of a name
UniqueNames(files) ==
    \A f, g \in files : (f.stem = g.stem /\ f.suffix = g.suffix) => f = g

HuskyEntries == {DirFile(h, "", kind) : h \in HookNames, kind \in {"file", "dir"}}

HuskyDirs ==
    {NoHusky} \cup {Husky(S) : S \in {T \in SUBSET HuskyEntries : UniqueNames(T)}}

DirFiles ==
    { DirFile(stem, suffix, kind) :
        stem \in HookNames, suffix \in {"", "lint"},
        kind \in {"file", "symlink_file", "dir"} }

RECURSIVE SubsetsUpTo(_, _)
SubsetsUpTo(S, n) ==
    IF n = 0 THEN {{}}
    ELSE LET smaller == SubsetsUpTo(S, n - 1)
         IN  smaller \cup {T \cup {x} : T \in smaller, x \in S}

\* the hooks directories that exist (E) and the files in them (placed)
HooksDirsOf(E, placed) ==
    [d \in 1..Len(HOOKS_DIR_NAMES) |->
        IF d \in E THEN Dir({p[2] : p \in {q \in placed : q[1] = d}}) ELSE NoDir]

HooksDirsSet ==
    { HooksDirsOf(E, placed) :
        E \in SUBSET (1..Len(HOOKS_DIR_NAMES)),
        placed \in SubsetsUpTo((1..Len(HOOKS_DIR_NAMES)) \X DirFiles, MaxDirFiles) }

ValidHooksDirs(dirs) ==
    \A d \in 1..Len(HOOKS_DIR_NAMES) : UniqueNames(dirs[d].files)

HooksDirsPresence ==
    { HooksDirsOf(E, {<<d, DirFile("pre-push", "", "file")>> : d \in E}) :
        E \in SUBSET (1..Len(HOOKS_DIR_NAMES)) }

InitAdapterEnvironment ==
    /\ pc = "adapter"
    /\ command = "hook"
    /\ hookName \in HookNames
    /\ \/ /\ preCommit \in PreCommitPresence
          /\ husky \in HuskyDirs
          /\ hooksDirs \in HooksDirsPresence
       \/ /\ preCommit \in {PreCommitFile("ok", c) : c \in PreCommitConfigs}
          /\ husky \in {NoHusky, Husky({DirFile("pre-push", "", "file")})}
          /\ hooksDirs = NoHooksDirs
       \/ /\ preCommit = NoPreCommit
          /\ husky = NoHusky
          /\ hooksDirs \in {dirs \in HooksDirsSet : ValidHooksDirs(dirs)}

InitAdapter ==
    /\ InitAdapterEnvironment
    /\ globalFile = NoFile /\ inRepo = TRUE /\ repoFile = NoFile
    /\ NotRun /\ NotSearched
    /\ gHook = Null /\ oHook = Null /\ mHook = Null
    /\ gDoc = Null /\ oDoc = Null /\ mDoc = Null
    /\ annIn = Null /\ annOut = Null

\* adapter_config_for(root, Some(hook_name))
AdapterConfigFor ==
    /\ pc = "adapter"
    /\ adapter' = detect_adapter(preCommit, husky, hooksDirs)
    /\ generated' = IF adapter' = NoAdapter THEN None
                    ELSE AdapterGenerate(adapter', preCommit, husky, hooksDirs, hookName)
    /\ adapterConfig' = adapter_config_for(preCommit, husky, hooksDirs, hookName)
    /\ pc' = "adapted"
    /\ UNCHANGED <<mergeVars, annVars, envVars, findVars, jobsVars, globalDoc, repoFound, merged, temp,
                   tempContent, dispatched, printed, status, logged, exit>>

NextAdapter == AdapterConfigFor

SpecAdapter == InitAdapter /\ [][NextAdapter]_vars

\* ------------------------------------------------------------------------
\* C10
\* ------------------------------------------------------------------------

\* C10: detect_adapter returns the first adapter, in the order pre-commit,
\* husky, hooks-dir, whose detect is true (.pre-commit-config.yaml is a
\* file, .husky is a directory, one of the hooks directories exists), and
\* none when no detect is true.
C10_DetectAdapterPriority ==
    pc = "adapted" =>
        adapter = IF preCommit.st \in {"ok", "bad"} THEN "pre-commit"
                  ELSE IF husky.dir THEN "husky"
                  ELSE IF \E d \in 1..Len(HOOKS_DIR_NAMES) : hooksDirs[d].exists
                       THEN "hooks-dir"
                  ELSE NoAdapter

\* a repository with .pre-commit-config.yaml, a .husky directory and a hooks
\* directory selects pre-commit
C10_Witness ==
    /\ pc = "adapted"
    /\ preCommit.st = "ok" /\ husky.dir /\ hooksDirs[1].exists
    /\ adapter = "pre-commit"

\* ------------------------------------------------------------------------
\* SpecRun: run_hook and dry_run, from the invocation to the exit code
\* ------------------------------------------------------------------------

\* DEFAULT_GLOBAL_CONFIG, parsed
DefaultTask(key, run, sf) ==
    [TaskSpec(key, NoName, run) EXCEPT !.sf = sf, !.skip = "lefthook --dry-run " \o key]

parse_default_global_config ==
    MappingValue(<<
        TopEntry("output", Scalar("success,failure")),
        TopEntry("pre-push", MappingValue(<<
            ScalarEntry("parallel", "true"),
            MapEntry("commands", << DefaultTask("test", "just test", Absent),
                                    DefaultTask("lint", "just lint", Absent) >>) >>)),
        TopEntry("prepare-commit-msg", MappingValue(<<
            MapEntry("commands",
                << [TaskSpec("aittributor", NoName, "aittributor {1}") EXCEPT
                       !.skip = "which aittributor > /dev/null"] >>) >>)),
        TopEntry("pre-commit", MappingValue(<<
            MapEntry("commands", << DefaultTask("fmt", "just fmt", "true") >>) >>)) >>)

\* the documents a configuration file of a run holds: one top-level key
RunDocs(side) ==
    { MappingValue(<< TopEntry(k, v) >>) : k \in TopKeys, v \in TopValues(side) }
    \cup { MappingValue(<<>>), Null }

RunFiles(side) == {NoFile, BadFile} \cup {File(d) : d \in RunDocs(side)}

RunPreCommits ==
    { NoPreCommit,
      PreCommitFile("bad", NoPreCommitConfig),
      PreCommitFile("ok", SimplePreCommitConfig),
      PreCommitFile("ok", PreCommitConfig(
          << Repo("local", << [Hook("b", "lint") EXCEPT !.stages = <<"pre-push">>] >>) >>,
          <<>>)) }

RunHuskys == {NoHusky, Husky({DirFile(h, "", "file") : h \in HookNames})}

RunHooksDirs ==
    { NoHooksDirs,
      << Dir({DirFile("pre-push", "", "file"), DirFile("pre-commit", "lint", "file")}),
         NoDir, NoDir >> }

\* main: the program is invoked under a hook's name, or as lhm dry-run
Invocations ==
    {[command |-> "hook", hookName |-> h] : h \in HookNames}
    \cup {[command |-> "dry-run", hookName |-> ""]}

InitRun ==
    /\ pc = "start"
    /\ \E inv \in Invocations : command = inv.command /\ hookName = inv.hookName
    /\ globalFile \in RunFiles("g")
    /\ inRepo \in BOOLEAN
    /\ IF inRepo
       THEN /\ repoFile \in RunFiles("o")
            /\ preCommit \in RunPreCommits
            /\ husky \in RunHuskys
            /\ hooksDirs \in RunHooksDirs
       ELSE /\ repoFile = NoFile
            /\ preCommit = NoPreCommit /\ husky = NoHusky /\ hooksDirs = NoHooksDirs
    /\ NotRun /\ NotSearched
    /\ gHook = Null /\ oHook = Null /\ mHook = Null
    /\ gDoc = Null /\ oDoc = Null /\ mDoc = Null
    /\ annIn = Null /\ annOut = Null

\* mutant: a global file that cannot be read or parsed is replaced by the
\* built-in default
LoadGlobalConfig_fallback ==
    /\ pc = "start"
    /\ globalDoc' = IF globalFile.st = "ok" THEN globalFile.doc
                    ELSE parse_default_global_config
    /\ pc' = "loaded"
    /\ UNCHANGED <<mergeVars, annVars, envVars, findVars, jobsVars, repoFound, adapter, generated,
                   adapterConfig, merged, temp, tempContent, dispatched, printed, status,
                   logged, exit>>

\* load_global_config, and the early return of run_hook when it fails
LoadGlobalConfig ==
    /\ pc = "start"
    /\ IF globalFile.st = "bad"
       THEN /\ logged' = "failed to read or parse the global config"
            /\ exit' = "FAILURE" /\ pc' = "done"
            /\ UNCHANGED globalDoc
       ELSE /\ globalDoc' = IF globalFile.st = "ok" THEN globalFile.doc
                            ELSE parse_default_global_config
            /\ pc' = "loaded"
            /\ UNCHANGED <<logged, exit>>
    /\ UNCHANGED <<mergeVars, annVars, envVars, findVars, jobsVars, repoFound, adapter, generated,
                   adapterConfig, merged, temp, tempContent, dispatched, printed, status>>

\* repo_root and repo_config
RepoConfig ==
    /\ pc = "loaded"
    /\ repoFound' = (inRepo /\ repoFile.st # "none")
    /\ pc' = "located"
    /\ UNCHANGED <<mergeVars, annVars, envVars, findVars, jobsVars, globalDoc, adapter, generated,
                   adapterConfig, merged, temp, tempContent, dispatched, printed, status, logged, exit>>

\* the adapter is asked only when there is a root and no repo config
AdapterConfig ==
    /\ pc = "located"
    /\ IF ~repoFound /\ inRepo
       THEN /\ adapter' = detect_adapter(preCommit, husky, hooksDirs)
            /\ generated' =
                  IF adapter' = NoAdapter THEN None
                  ELSE IF command = "dry-run"
                       THEN combined_config(preCommit, husky, hooksDirs)
                  ELSE AdapterGenerate(adapter', preCommit, husky, hooksDirs, hookName)
            /\ adapterConfig' =
                  IF command = "dry-run"
                  THEN adapter_config_for_all(preCommit, husky, hooksDirs)
                  ELSE adapter_config_for(preCommit, husky, hooksDirs, hookName)
       ELSE /\ adapterConfig' = None
            /\ UNCHANGED <<adapter, generated>>
    /\ pc' = "sourced"
    /\ UNCHANGED <<mergeVars, annVars, envVars, findVars, jobsVars, globalDoc, repoFound, merged, temp,
                   tempContent, dispatched, printed, status, logged, exit>>

\* resolve_config: read_yaml of the repo config may fail
ResolveConfig ==
    /\ pc = "sourced"
    /\ IF repoFound /\ repoFile.st = "bad"
       THEN /\ logged' = "failed to read or parse the repo config"
            /\ exit' = "FAILURE" /\ pc' = "done"
            /\ UNCHANGED merged
       ELSE /\ merged' = resolve_config(globalDoc, repoFound, repoFile.doc, adapterConfig)
            /\ pc' = "resolved"
            /\ UNCHANGED <<logged, exit>>
    /\ UNCHANGED <<mergeVars, annVars, envVars, findVars, jobsVars, globalDoc, repoFound, adapter, generated,
                   adapterConfig, temp, tempContent, dispatched, printed, status>>

\* dry_run: the resolved document is printed
PrintConfig ==
    /\ pc = "resolved" /\ command = "dry-run"
    /\ printed' = merged
    /\ exit' = "SUCCESS"
    /\ pc' = "done"
    /\ UNCHANGED <<mergeVars, annVars, envVars, findVars, jobsVars, globalDoc, repoFound, adapter, generated,
                   adapterConfig, merged, temp, tempContent, dispatched, status, logged>>

\* write_merged_temp: the document cannot be serialized, or the file cannot
\* be created, or it is created and cannot be written (and is deleted when
\* the NamedTempFile is dropped), or it holds the serialized document
WriteMergedTemp ==
    /\ pc = "resolved" /\ command = "hook"
    /\ \E outcome \in {"serialize_failed", "create_failed", "write_failed", "ok"} :
          CASE outcome = "serialize_failed" ->
                  /\ logged' = "failed to serialize config"
                  /\ exit' = "FAILURE" /\ pc' = "done"
                  /\ UNCHANGED <<temp, tempContent>>
            [] outcome = "create_failed" ->
                  /\ logged' = "failed to create temp file"
                  /\ exit' = "FAILURE" /\ pc' = "done"
                  /\ UNCHANGED <<temp, tempContent>>
            [] outcome = "write_failed" ->
                  /\ temp' = "deleted"
                  /\ logged' = "failed to write temp config"
                  /\ exit' = "FAILURE" /\ pc' = "done"
                  /\ UNCHANGED tempContent
            [] outcome = "ok" ->
                  /\ temp' = "exists" /\ tempContent' = merged
                  /\ pc' = "written"
                  /\ UNCHANGED <<logged, exit>>
    /\ UNCHANGED <<mergeVars, annVars, envVars, findVars, jobsVars, globalDoc, repoFound, adapter, generated,
                   adapterConfig, merged, dispatched, printed, status>>

\* mutant: the temporary file is kept when the engine cannot be started
SpawnEngine_keep ==
    /\ pc = "written"
    /\ \E started \in BOOLEAN :
          IF started
          THEN /\ dispatched' = tempContent
               /\ pc' = "running"
               /\ UNCHANGED <<status, logged, exit>>
          ELSE /\ status' = LaunchError
               /\ logged' = "failed to run lefthook"
               /\ exit' = "FAILURE"
               /\ pc' = "done"
               /\ UNCHANGED dispatched
    /\ UNCHANGED <<mergeVars, annVars, envVars, findVars, jobsVars, globalDoc, repoFound, adapter, generated,
                   adapterConfig, merged, temp, tempContent, printed>>

\* Command::status: the engine starts with LEFTHOOK_CONFIG naming the
\* temporary file, or cannot be started
SpawnEngine ==
    /\ pc = "written"
    /\ \E started \in BOOLEAN :
          IF started
          THEN /\ dispatched' = tempContent
               /\ pc' = "running"
               /\ UNCHANGED <<status, temp, logged, exit>>
          ELSE /\ status' = LaunchError
               /\ logged' = "failed to run lefthook"
               /\ exit' = "FAILURE"
               /\ temp' = "deleted"
               /\ pc' = "done"
               /\ UNCHANGED dispatched
    /\ UNCHANGED <<mergeVars, annVars, envVars, findVars, jobsVars, globalDoc, repoFound, adapter, generated,
                   adapterConfig, merged, tempContent, printed>>

EngineCodes == {0, 1, 2}

\* the engine exits; run_hook returns and _temp is dropped
EngineExit ==
    /\ pc = "running"
    /\ \E code \in EngineCodes :
          /\ status' = Exited(code)
          /\ exit' = IF code = 0 THEN "SUCCESS" ELSE "FAILURE"
    /\ temp' = "deleted"
    /\ pc' = "done"
    /\ UNCHANGED <<mergeVars, annVars, envVars, findVars, jobsVars, globalDoc, repoFound, adapter, generated,
                   adapterConfig, merged, tempContent, dispatched, printed, logged>>

NextRun ==
    \/ LoadGlobalConfig
    \/ RepoConfig
    \/ AdapterConfig
    \/ ResolveConfig
    \/ PrintConfig
    \/ WriteMergedTemp
    \/ SpawnEngine
    \/ EngineExit

SpecRun == InitRun /\ [][NextRun]_vars

\* ------------------------------------------------------------------------
\* C7
\* ------------------------------------------------------------------------

\* the hook k as a source document writes it, the empty mapping when the
\* document has no mapping under k
HookOf(doc, k) ==
    IF doc.isMap /\ Mapping_contains_key(doc.ents, k) /\ TopValue(doc, k).isMap
    THEN TopValue(doc, k)
    ELSE EmptyMapping

CommandsOf(h) == {o.t : o \in {x \in Occ(h) : x.c = "commands"}}

\* the overlay of the run: the repository configuration when there is one
RepoHook(k) == IF repoFound THEN HookOf(repoFile.doc, k) ELSE EmptyMapping

\* the hook (the only one of the adapter's document) comes from the adapter
FromAdapter(k) == adapterConfig.some /\ k = hookName

\* the parallel setting the configuration files declare for hook k
DeclaredParallel(k) ==
    IF ParallelOf(RepoHook(k)) # Absent THEN ParallelOf(RepoHook(k))
    ELSE ParallelOf(HookOf(globalDoc, k))

\* the commands of hook k the adapter generated, as annotate_hooks is
\* documented to leave them
AdapterCommands(k) ==
    IF ~FromAdapter(k) THEN {}
    ELSE { IF IsStaging(k) /\ t.isMap THEN [t EXCEPT !.sf = "true"] ELSE t :
             t \in CommandsOf(HookOf(generated.v, k)) }

RepoFileExists == inRepo /\ repoFile.st # "none"

\* the document C11 says the run ends with
ClaimedFinalDocument ==
    IF RepoFileExists THEN merge_configs(globalDoc, repoFile.doc)
    ELSE IF generated.some THEN merge_configs(globalDoc, adapterConfig.v)
    ELSE globalDoc

\* C11: in run_hook and dry_run, when a repository configuration file is
\* found no adapter is detected or asked to generate and the final document
\* is merge(global, repository); an adapter is consulted only when there is
\* no repository configuration file, and the final document is then
\* merge(global, adapter document) if the adapter contributes and the global
\* document alone otherwise.
C11_SourceSelection ==
    /\ RepoFileExists => (adapter = NoAdapter /\ ~generated.some /\ ~adapterConfig.some)
    /\ generated.some = adapterConfig.some
    /\ pc \in {"resolved", "written", "running"} => merged = ClaimedFinalDocument
    /\ pc = "running" => dispatched = ClaimedFinalDocument
    /\ (pc = "done" /\ command = "dry-run" /\ exit = "SUCCESS") =>
          printed = ClaimedFinalDocument

\* the engine runs on merge(global, repository) in a repository that has a
\* .pre-commit-config.yaml and a .husky directory as well, and no adapter
\* was asked
C11_Witness ==
    /\ pc = "running"
    /\ repoFile.st = "ok" /\ repoFile.doc.isMap /\ Len(repoFile.doc.ents) > 0
    /\ globalDoc.isMap /\ Len(globalDoc.ents) > 0
    /\ preCommit.st = "ok" /\ husky.dir
    /\ adapter = NoAdapter
    /\ dispatched = merge_configs(globalDoc, repoFile.doc)

\* ------------------------------------------------------------------------
\* C12
\* ------------------------------------------------------------------------

\* C12: when reading or parsing the global or the repository configuration
\* file fails, run_hook ends with a non-zero exit code, the engine is never
\* launched and no temp file is written; in every run the engine is launched
\* only after the merged document was resolved and written to the temp file.
C12_ReadFailureAborts ==
    command = "hook" =>
        /\ (globalFile.st = "bad" \/ (RepoFileExists /\ repoFile.st = "bad")) =>
              /\ temp = "none" /\ tempContent = Null
              /\ status = NoStatus /\ dispatched = Null
              /\ pc \notin {"resolved", "written", "running"}
              /\ pc = "done" => (exit = "FAILURE" /\ logged # NoMessage)
        /\ (pc = "running" \/ status.st # "none") =>
              /\ temp # "none"
              /\ tempContent = merged
              /\ merged = ClaimedFinalDocument
              /\ logged \in {NoMessage, "failed to run lefthook"}
        /\ pc = "running" => dispatched = tempContent

\* the global file is read, the repository's file cannot be parsed, and
\* run_hook has returned
C12_Witness ==
    /\ command = "hook" /\ pc = "done"
    /\ globalFile.st = "ok" /\ repoFile.st = "bad"
    /\ exit = "FAILURE" /\ temp = "none" /\ status = NoStatus

\* ------------------------------------------------------------------------
\* C13
\* ------------------------------------------------------------------------

\* C13: when .pre-commit-config.yaml exists and cannot be read or parsed,
\* generate_config of the pre-commit adapter returns None for every hook
\* name, nothing is logged as an error, and run_hook (there being no
\* repository configuration) goes on to start the engine with the global
\* configuration alone.
C13_AdapterSourceFailureNonFatal ==
    (command = "hook" /\ preCommit.st = "bad" /\ ~RepoFileExists) =>
        /\ \A i \in 1..Len(GIT_HOOKS) :
              ~PreCommitAdapter_generate_config(preCommit, GIT_HOOKS[i]).some
        /\ pc \in {"sourced", "resolved", "written", "running"} =>
              (adapter = "pre-commit" /\ ~generated.some /\ ~adapterConfig.some)
        /\ pc \in {"sourced", "resolved"} => (logged = NoMessage /\ exit = "none")
        /\ pc \in {"resolved", "written", "running"} => merged = globalDoc
        /\ pc = "running" => (dispatched = globalDoc /\ logged = NoMessage)
        /\ (pc = "done" /\ status = Exited(0)) => (exit = "SUCCESS" /\ logged = NoMessage)

\* the engine runs on the global configuration in a repository whose
\* .pre-commit-config.yaml is malformed and whose .husky has scripts
C13_Witness ==
    /\ command = "hook" /\ pc = "running"
    /\ preCommit.st = "bad" /\ ~RepoFileExists /\ husky.dir
    /\ globalDoc.isMap /\ Len(globalDoc.ents) > 0
    /\ dispatched = globalDoc

\* ------------------------------------------------------------------------
\* C14
\* ------------------------------------------------------------------------

\* the number the operating system sees for an ExitCode
ExitCodeOf(code) == IF code = "SUCCESS" THEN 0 ELSE 1

\* C14: run_hook returns the engine's exit status as the program's exit
\* code: 0 when the engine exits 0, and n for every non-zero status n.
C14_ExitStatusPropagated ==
    (pc = "done" /\ status.st = "exited") => ExitCodeOf(exit) = status.code

\* ------------------------------------------------------------------------
\* C15
\* ------------------------------------------------------------------------

\* C15: the temp file exists for the whole time the engine is running, and
\* on every path out of run_hook after it was created (the engine exits with
\* 0 or not, the engine cannot be launched, writing the content fails) it
\* has been deleted when run_hook returns.
C15_TempFileLifetime ==
    /\ pc = "running" => temp = "exists"
    /\ temp = "exists" => pc \in {"written", "running"}
    /\ pc = "done" =>
          temp = IF status.st # "none" \/ logged = "failed to write temp config"
                 THEN "deleted" ELSE "none"

\* run_hook has returned after the engine could not be launched, and the
\* file is gone
C15_Witness ==
    /\ pc = "done" /\ status = LaunchError
    /\ tempContent = merged /\ temp = "deleted"

\* ------------------------------------------------------------------------
\* The adapter's document, for the statements below
\* ------------------------------------------------------------------------

Range(seq) == {seq[i] : i \in 1..Len(seq)}

\* the commands generate_config returned for the hook
GeneratedCommands ==
    IF generated.some THEN CommandsOf(HookOf(generated.v, hookName)) ELSE {}

\* the hooks of the local repos of .pre-commit-config.yaml that have an entry
LocalHooks ==
    UNION { Range(preCommit.cfg.repos[r].hooks) :
              r \in {x \in 1..Len(preCommit.cfg.repos) :
                       preCommit.cfg.repos[x].repo = "local"} }

EffectiveStages(h) ==
    IF h.stages # <<>> THEN h.stages ELSE preCommit.cfg.default_stages

Applies(h) == EffectiveStages(h) = <<>> \/ hookName \in Range(EffectiveStages(h))

PreCommitAsked == pc = "adapted" /\ adapter = "pre-commit" /\ preCommit.st = "ok"

\* ------------------------------------------------------------------------
\* C16
\* ------------------------------------------------------------------------

\* C16: a local hook's effective stages are its own stages if non-empty and
\* default_stages otherwise; generating for hook name h, the hook (one with
\* an entry) contributes a task if and only if its effective stages are
\* empty or contain h.
C16_StageFiltering ==
    PreCommitAsked =>
        {c.key : c \in GeneratedCommands}
            = {h.id : h \in {x \in LocalHooks : x.entry # Absent /\ Applies(x)}}

\* generating for pre-commit with default_stages [pre-push]: a hook with
\* stages [pre-commit, pre-push] contributes, a hook without stages does not
C16_Witness ==
    /\ PreCommitAsked /\ hookName = "pre-commit"
    /\ preCommit.cfg.default_stages = <<"pre-push">>
    /\ \E h \in LocalHooks :
          h.stages = <<"pre-commit", "pre-push">> /\ h.id \in {c.key : c \in GeneratedCommands}
    /\ \E h \in LocalHooks :
          h.stages = <<>> /\ h.entry # Absent /\ h.id \notin {c.key : c \in GeneratedCommands}

\* ------------------------------------------------------------------------
\* C17
\* ------------------------------------------------------------------------

\* the extensions of the known tags of a hook's types and types_or
ExtSet(h) ==
    UNION {Range(type_to_extensions(ty)) : ty \in Range(h.types) \cup Range(h.types_or)}

\* the hooks a generated command may stand for
HooksOf(c) == {h \in LocalHooks : h.id = c.key /\ h.entry # Absent /\ Applies(h)}

\* C17 as stated: no glob for an empty extension set, "*.py" for types
\* [python], "*.{yml,yaml}" for types [yaml], and a glob for every other set.
C17_GlobAsStated ==
    PreCommitAsked =>
        \A c \in GeneratedCommands : \E h \in HooksOf(c) :
            CASE ExtSet(h) = {} -> c.glob = Absent
              [] ExtSet(h) = {"py"} -> c.glob = "*.py"
              [] ExtSet(h) = {"yml", "yaml"} -> c.glob = "*.{yml,yaml}"
              [] OTHER -> c.glob # Absent

\* C17 as amended: the extensions of the known tags of types and types_or
\* are unioned, deduplicated and sorted in byte order; no extension gives no
\* glob, one gives "*.e", several give "*.{e1,e2,...}" in that order, so
\* types [yaml] gives "*.{yaml,yml}", types [python] "*.py", types [file]
\* no glob.
C17_GlobSorted ==
    PreCommitAsked =>
        \A c \in GeneratedCommands : \E h \in HooksOf(c) :
            CASE ExtSet(h) = {} -> c.glob = Absent
              [] ExtSet(h) = {"py"} -> c.glob = "*.py"
              [] ExtSet(h) = {"yml", "yaml"} -> c.glob = "*.{yaml,yml}"
              [] ExtSet(h) = {"py", "yml", "yaml"} -> c.glob = "*.{py,yaml,yml}"
              [] OTHER -> FALSE

\* commands generated from types [yaml] and from types [yaml] with types_or
\* [python, yaml]
C17_Witness ==
    /\ PreCommitAsked
    /\ \E c \in GeneratedCommands : c.glob = "*.{yaml,yml}"
    /\ \E c \in GeneratedCommands : c.glob = "*.{py,yaml,yml}"

\* ------------------------------------------------------------------------
\* C18
\* ------------------------------------------------------------------------

\* C18: the husky adapter returns a fragment for hook h if and only if
\* .husky/h is a regular file; the fragment holds, under h, a commands map
\* with exactly one task, keyed husky, whose run is .husky/h.
C18_HuskyFragment ==
    (pc = "adapted" /\ adapter = "husky") =>
        IF DirFile(hookName, "", "file") \in husky.entries
        THEN /\ generated.some
             /\ generated.v =
                   MappingValue(<< TopEntry(hookName, MappingValue(<<
                       MapEntry("commands",
                           << TaskSpec("husky", NoName, ".husky/" \o hookName) >>) >>)) >>)
        ELSE ~generated.some

\* a fragment for the hook, in a .husky that holds a directory under the
\* other hook's name
C18_Witness ==
    /\ pc = "adapted" /\ adapter = "husky" /\ generated.some
    /\ \E f \in husky.entries : f.kind = "dir"

\* ------------------------------------------------------------------------
\* C19
\* ------------------------------------------------------------------------

HooksDirAsked == pc = "adapted" /\ adapter = "hooks-dir"

\* the positions in HOOKS_DIR_NAMES of the directories that exist
ExistingDirs == {d \in 1..Len(HOOKS_DIR_NAMES) : hooksDirs[d].exists}

\* the first of them
FirstDir == CHOOSE d \in ExistingDirs : \A e \in ExistingDirs : d <= e

\* an entry the hook name selects: h or h-<suffix>
NamedForHook(f) == f.stem = hookName

\* C19: the hooks-dir adapter uses only the first existing directory of
\* .hooks, git-hooks, .git/hooks: every run it generates is a file of that
\* directory, and when that directory has no script for the hook the
\* result is None, whatever the directories after it hold.
C19_FirstHooksDirOnly ==
    HooksDirAsked =>
        /\ \A c \in GeneratedCommands :
              \E f \in hooksDirs[FirstDir].files :
                  NamedForHook(f) /\ c.run = HOOKS_DIR_NAMES[FirstDir] \o "/" \o FileName(f)
        /\ (~\E f \in hooksDirs[FirstDir].files : NamedForHook(f)) => ~generated.some

\* .hooks has nothing for the hook, a directory after it has a script, and
\* the result is None
C19_Witness ==
    /\ HooksDirAsked /\ FirstDir = 1
    /\ ~\E f \in hooksDirs[1].files : NamedForHook(f)
    /\ \E d \in ExistingDirs :
          d > 1 /\ \E f \in hooksDirs[d].files : NamedForHook(f) /\ f.kind = "file"
    /\ ~generated.some

\* ------------------------------------------------------------------------
\* C20
\* ------------------------------------------------------------------------

\* the entries of the directory in use that yield a task according to C20
ClaimedScripts ==
    {f \in hooksDirs[FirstDir].files :
        /\ NamedForHook(f)
        /\ \/ f.kind = "file"
           \/ f.kind = "symlink_file" /\ HOOKS_DIR_NAMES[FirstDir] # ".git/hooks"}

\* C20: symbolic links are left out of the scan if and only if the
\* directory in use is .git/hooks: there a symlinked script yields no task,
\* in .hooks and git-hooks a symlink to a regular file yields a task like a
\* regular script.
C20_SymlinksSkippedInGitHooksOnly ==
    HooksDirAsked =>
        {c.run : c \in GeneratedCommands}
            = {HOOKS_DIR_NAMES[FirstDir] \o "/" \o FileName(f) : f \in ClaimedScripts}

\* .git/hooks in use with a symlinked script for the hook next to a regular
\* one: one task
C20_Witness ==
    /\ HooksDirAsked /\ HOOKS_DIR_NAMES[FirstDir] = ".git/hooks"
    /\ \E f \in hooksDirs[FirstDir].files : NamedForHook(f) /\ f.kind = "symlink_file"
    /\ Cardinality(GeneratedCommands) = 1

\* ------------------------------------------------------------------------
\* SpecFind: find_config applied to a directory
\* ------------------------------------------------------------------------

\* an entry of the directory under a candidate name: a regular file or a
\* directory
ConfigEntries ==
    { [name |-> n, ext |-> x, kind |-> k] :
        n \in {"lefthook", ".lefthook", ".config/lefthook"},
        x \in Range(LEFTHOOK_EXTENSIONS),
        k \in {"file", "dir"} }

\* a path names one entry
UniquePaths(dir) ==
    \A f, g \in dir : (f.name = g.name /\ f.ext = g.ext) => f = g

InitFind ==
    /\ pc = "find"
    /\ searchDir \in {dir \in SubsetsUpTo(ConfigEntries, MaxConfigFiles) : UniquePaths(dir)}
    /\ dotConfig \in BOOLEAN
    /\ foundConfig = NoCandidate
    /\ gJobs = ScalarEntry("jobs", "") /\ oJobs = ScalarEntry("jobs", "")
    /\ mJobs = ScalarEntry("jobs", "")
    /\ NoEnvironment /\ NotRun
    /\ gHook = Null /\ oHook = Null /\ mHook = Null
    /\ gDoc = Null /\ oDoc = Null /\ mDoc = Null
    /\ annIn = Null /\ annOut = Null

\* global_config is find_config(home, false), repo_config find_config(root,
\* true)
FindConfig ==
    /\ pc = "find"
    /\ foundConfig' = find_config(searchDir, dotConfig)
    /\ pc' = "searched"
    /\ UNCHANGED <<mergeVars, annVars, envVars, jobsVars, runVars, searchDir, dotConfig>>

NextFind == FindConfig

SpecFind == InitFind /\ [][NextFind]_vars

\* ------------------------------------------------------------------------
\* C21
\* ------------------------------------------------------------------------

\* the position of a candidate in an order of extensions: extension by
\* extension, lefthook then .lefthook then .config/lefthook
ExtPos(exts, x) == CHOOSE i \in 1..Len(exts) : exts[i] = x

NamePos(n) == CASE n = "lefthook" -> 1 [] n = ".lefthook" -> 2 [] OTHER -> 3

Rank(exts, c) == 3 * ExtPos(exts, c.ext) + NamePos(c.name)

\* the regular files of the directory that are candidates of the search
Eligible ==
    { Candidate(f.name, f.ext) :
        f \in {g \in searchDir :
                 g.kind = "file" /\ (dotConfig \/ g.name # ".config/lefthook")} }

\* find_config returns the eligible candidate that comes first in exts
FirstIn(exts) ==
    IF Eligible = {} THEN foundConfig = NoCandidate
    ELSE /\ foundConfig \in Eligible
         /\ \A c \in Eligible : Rank(exts, foundConfig) <= Rank(exts, c)

\* C21 as stated: find_config returns the first existing regular file among
\* the candidates taken in the extension order yaml, yml, json, jsonc, toml.
C21_FirstCandidateYamlFirst ==
    pc = "searched" => FirstIn(<< "yaml", "yml", "json", "jsonc", "toml" >>)

\* C21 as amended: the extension order is yml, yaml, json, jsonc, toml; for
\* each extension lefthook.<ext>, then .lefthook.<ext>, then (repository
\* search only) .config/lefthook.<ext>; none when no candidate is a regular
\* file, and never a .config/ candidate in the global search.
C21_FirstCandidateYmlFirst ==
    pc = "searched" =>
        /\ FirstIn(<< "yml", "yaml", "json", "jsonc", "toml" >>)
        /\ ~dotConfig => foundConfig.name # ".config/lefthook"

\* lefthook.yml and lefthook.yaml are both files, and lefthook.yml is found
C21_Witness ==
    /\ pc = "searched"
    /\ Candidate("lefthook", "yml") \in Eligible
    /\ Candidate("lefthook", "yaml") \in Eligible
    /\ foundConfig = Candidate("lefthook", "yml")

\* ------------------------------------------------------------------------
\* SpecJobs: merge_jobs applied to two values of `jobs`
\* ------------------------------------------------------------------------

\* what one written job is: a mapping with a name, a mapping without one, or
\* a job that is not a mapping
JobSlots == {"a", "b", NoName, "scalar"}

BuildJobs(side, s) ==
    SeqEntry("jobs",
        [i \in 1..Len(s) |->
            IF s[i] = "scalar" THEN ScalarTask("", Run(side, i))
            ELSE TaskSpec("", s[i], Run(side, i))])

JobsValues(side, n) ==
    { BuildJobs(side, s) : s \in SeqsUpTo(JobSlots, n) }
    \cup { ScalarEntry("jobs", side) }

InitJobs ==
    /\ pc = "jobs"
    /\ gJobs \in JobsValues("g", MaxGlobalEntries)
    /\ oJobs \in JobsValues("o", MaxOverlayEntries)
    /\ mJobs = ScalarEntry("jobs", "")
    /\ searchDir = {} /\ dotConfig = FALSE /\ foundConfig = NoCandidate
    /\ NoEnvironment /\ NotRun
    /\ gHook = Null /\ oHook = Null /\ mHook = Null
    /\ gDoc = Null /\ oDoc = Null /\ mDoc = Null
    /\ annIn = Null /\ annOut = Null

MergeJobs ==
    /\ pc = "jobs"
    /\ mJobs' = merge_jobs(gJobs, oJobs)
    /\ pc' = "jobs_merged"
    /\ UNCHANGED <<gJobs, oJobs, mergeVars, annVars, envVars, findVars, runVars>>

NextJobs == MergeJobs

SpecJobs == InitJobs /\ [][NextJobs]_vars

\* ------------------------------------------------------------------------
\* C22
\* ------------------------------------------------------------------------

\* the global job at position i has a name that an overlay job has
Overridden(i) ==
    /\ job_name(gJobs.items[i]) # NoName
    /\ \E j \in 1..Len(oJobs.items) :
           job_name(oJobs.items[j]) = job_name(gJobs.items[i])

\* the positions of the global jobs that are kept
KeptJobs == {i \in 1..Len(gJobs.items) : ~Overridden(i)}

\* C22: on two sequences merge_jobs returns the global jobs that no overlay
\* job overrides by name, in their order, followed by every overlay job in
\* its order.
C22_MergeJobsOrder ==
    (pc = "jobs_merged" /\ gJobs.kind = "seq" /\ oJobs.kind = "seq") =>
        /\ mJobs.kind = "seq"
        /\ Len(mJobs.items) = Cardinality(KeptJobs) + Len(oJobs.items)
        /\ \A i \in KeptJobs :
               mJobs.items[Cardinality({k \in KeptJobs : k <= i})] = gJobs.items[i]
        /\ \A j \in 1..Len(oJobs.items) :
               mJobs.items[Cardinality(KeptJobs) + j] = oJobs.items[j]

\* two overlay jobs share the name of the first global job; an unnamed and a
\* differently named global job are kept
C22_Witness ==
    /\ pc = "jobs_merged"
    /\ gJobs = BuildJobs("g", << "a", NoName, "b" >>)
    /\ oJobs = BuildJobs("o", << "a", "a" >>)
    /\ Len(mJobs.items) = 4
    /\ mJobs.items[3] # mJobs.items[4]

\* ------------------------------------------------------------------------
\* C23
\* ------------------------------------------------------------------------

\* the tasks of the global definition that the overlay does not shadow
Unshadowed == {o \in Occ(gHook) : Identity(o) \notin Ids(oHook)}

\* C23: every task of the global definition whose identity the overlay does
\* not declare is in merge_hook's result, in the same container and with the
\* same spec; a container of the global definition is missing from the result
\* only when all its tasks were shadowed and the overlay has no such
\* container.
C23_UnshadowedTasksKept ==
    pc = "hook_merged" =>
        /\ \A o \in Unshadowed :
               \E m \in Occ(mHook) : m.c = o.c /\ m.t = o.t
        /\ \A e \in Containers(gHook) :
               ~Mapping_contains_key(mHook.ents, e.key) =>
                   /\ \A o \in Unshadowed : o.c # e.key
                   /\ ~Mapping_contains_key(oHook.ents, e.key)

\* one global container loses every task and is dropped, another keeps an
\* unshadowed task next to the overlay's tasks
C23_Witness ==
    /\ pc = "hook_merged"
    /\ \E e \in Containers(gHook) : ~Mapping_contains_key(mHook.ents, e.key)
    /\ \E o \in Unshadowed :
          /\ Mapping_contains_key(oHook.ents, o.c)
          /\ \E x \in Occ(gHook) \ Unshadowed : x.c = o.c

\* ------------------------------------------------------------------------
\* C24
\* ------------------------------------------------------------------------

\* the keys of a hook definition that are not task containers
Settings(h) == KeySet(h.ents) \ {"commands", "scripts", "jobs"}

\* C24: for every key of a hook definition other than commands, scripts and
\* jobs, merge_hook's result holds the overlay's value when the overlay has
\* the key and the global's value otherwise.
C24_SettingsOverlayWins ==
    pc = "hook_merged" =>
        /\ Settings(mHook) = Settings(gHook) \cup Settings(oHook)
        /\ \A k \in Settings(mHook) :
               Mapping_get(mHook.ents, k) =
                   IF k \in Settings(oHook) THEN Mapping_get(oHook.ents, k)
                   ELSE Mapping_get(gHook.ents, k)

\* both definitions set parallel, to different values, next to tasks
C24_Witness ==
    /\ pc = "hook_merged"
    /\ "parallel" \in Settings(gHook) \cap Settings(oHook)
    /\ Mapping_get(gHook.ents, "parallel") # Mapping_get(oHook.ents, "parallel")
    /\ Mapping_get(mHook.ents, "parallel") = Mapping_get(oHook.ents, "parallel")
    /\ Ids(gHook) \cap Ids(oHook) # {}

\* ------------------------------------------------------------------------
\* C25
\* ------------------------------------------------------------------------

\* a task without its stage_fixed field
WithoutStageFixed(items) == [j \in 1..Len(items) |-> [items[j] EXCEPT !.sf = Absent]]

\* a top-level entry without what annotate_hooks may set on it: the parallel
\* key of a hook that is not serial, the stage_fixed fields of the commands
\* of a staging hook
Frame(e) ==
    IF ~(e.v.isMap /\ is_hook_name(e.key)) THEN e
    ELSE LET kept == SelectSeq(e.v.ents,
                         LAMBDA x : IsSerial(e.key) \/ x.key # "parallel")
         IN  TopEntry(e.key, MappingValue(
                 [i \in 1..Len(kept) |->
                     IF IsStaging(e.key) /\ kept[i].key = "commands"
                     THEN [kept[i] EXCEPT !.items = WithoutStageFixed(kept[i].items)]
                     ELSE kept[i]]))

\* C25: annotate_hooks changes nothing but the parallel key of hooks that
\* are not serial and the stage_fixed field of the commands of pre-commit
\* and pre-merge-commit: top-level keys that are no hook name, hooks whose
\* value is no mapping, every other field of every task and the set and
\* order of tasks are as they were; a document that is no mapping is
\* returned as it is.
C25_AnnotationFrame ==
    pc = "annotated" =>
        IF ~annIn.isMap THEN annOut = annIn
        ELSE /\ annOut.isMap /\ Len(annOut.ents) = Len(annIn.ents)
             /\ \A i \in 1..Len(annIn.ents) :
                    Frame(annOut.ents[i]) = Frame(annIn.ents[i])

\* a hook that annotate_hooks changes, holding tasks outside commands, next
\* to a top-level key that is no hook name
C25_Witness ==
    /\ pc = "annotated" /\ annIn.isMap
    /\ \E i \in AnnHooks(annIn) :
          /\ annOut.ents[i] # annIn.ents[i]
          /\ \E x \in 1..Len(annIn.ents[i].v.ents) :
                annIn.ents[i].v.ents[x].key \in {"scripts", "jobs"}
    /\ \E i \in 1..Len(annIn.ents) : ~is_hook_name(annIn.ents[i].key)

\* ------------------------------------------------------------------------
\* SpecHooksDir: the hooks-dir adapter over the names a directory can hold
\* ------------------------------------------------------------------------

\* the entries of a hooks directory: scripts of the two hooks, bare and
\* suffixed, the suffix with or without a `: ` in it, and subdirectories
ScriptFiles ==
    { DirFile(stem, suffix, kind) :
        stem \in HookNames, suffix \in Range(SuffixesSorted), kind \in {"file", "dir"} }

InitHooksDir ==
    /\ pc = "adapter"
    /\ command = "hook"
    /\ hookName \in HookNames
    /\ preCommit = NoPreCommit
    /\ husky = NoHusky
    /\ \E d \in 1..Len(HOOKS_DIR_NAMES) :
       \E files \in {S \in SubsetsUpTo(ScriptFiles, MaxDirFiles) : UniqueNames(S)} :
           hooksDirs = HooksDirsOf({d}, {<<d, f>> : f \in files})
    /\ globalFile = NoFile /\ inRepo = TRUE /\ repoFile = NoFile
    /\ NotRun /\ NotSearched
    /\ gHook = Null /\ oHook = Null /\ mHook = Null
    /\ gDoc = Null /\ oDoc = Null /\ mDoc = Null
    /\ annIn = Null /\ annOut = Null

SpecHooksDir == InitHooksDir /\ [][NextAdapter]_vars

\* ------------------------------------------------------------------------
\* C26
\* ------------------------------------------------------------------------

\* the regular files of the directory in use that the hook name selects
Scripts == {f \in hooksDirs[FirstDir].files : NamedForHook(f) /\ f.kind = "file"}

\* the place of a script among Scripts in the order of the file names
ScriptRank(f) ==
    Cardinality({g \in Scripts :
        \E i, j \in 1..Len(SuffixesSorted) :
            i <= j /\ SuffixesSorted[i] = g.suffix /\ SuffixesSorted[j] = f.suffix})

\* the commands map of the document generate_config returned
GeneratedCommandList == SectionItems(HookOf(generated.v, hookName).ents, "commands")

\* C26: generate_config yields one command per regular file of the chosen
\* directory named h or h-<suffix>, in the order of the file names: the
\* file h as `hooks-dir`, a file h-<suffix> as `hooks-dir-<suffix>`, each
\* with run <dir>/<file>; subdirectories and other files yield nothing and
\* the result is None when no file matches.
C26_OneCommandPerScript ==
    HooksDirAsked =>
        IF Scripts = {} THEN ~generated.some
        ELSE /\ generated.some
             /\ Len(GeneratedCommandList) = Cardinality(Scripts)
             /\ \A f \in Scripts :
                    /\ GeneratedCommandList[ScriptRank(f)].key =
                           (IF f.suffix = "" THEN "hooks-dir"
                            ELSE "hooks-dir-" \o f.suffix)
                    /\ GeneratedCommandList[ScriptRank(f)].run =
                           HOOKS_DIR_NAMES[FirstDir] \o "/" \o FileName(f)

\* C26 for the names that are plain scalars in YAML
C26_OneCommandPerPlainScript ==
    (\A f \in Scripts : f.suffix \notin YamlUnsafe) => C26_OneCommandPerScript

\* ------------------------------------------------------------------------
\* C27
\* ------------------------------------------------------------------------

\* the hook entries of .pre-commit-config.yaml, by repo and position
HookEntries ==
    { <<r, i>> : r \in 1..Len(preCommit.cfg.repos), i \in 1..MaxPreCommitEntries } \cap
    UNION { {<<r, i>> : i \in 1..Len(preCommit.cfg.repos[r].hooks)} :
              r \in 1..Len(preCommit.cfg.repos) }

HookAt(x) == preCommit.cfg.repos[x[1]].hooks[x[2]]

\* the entry is in a local repo, passes stage filtering and has an entry
Qualifies(x) ==
    /\ preCommit.cfg.repos[x[1]].repo = "local"
    /\ Applies(HookAt(x))
    /\ HookAt(x).entry # Absent

\* C27: generate_config contributes a task for a hook entry if and only if
\* the entry is in a repo named exactly `local`, passes stage filtering for
\* h and has an `entry`; the tasks are under h's commands keyed by the
\* hook's id, and the result is None when no entry qualifies.
C27_TaskPerQualifyingHook ==
    PreCommitAsked =>
        /\ \A x \in HookEntries :
               Qualifies(x) => translate_hook(HookAt(x)) \in GeneratedCommands
        /\ \A c \in GeneratedCommands :
               \E x \in HookEntries : Qualifies(x) /\ c = translate_hook(HookAt(x))
        /\ generated.some <=> (\E x \in HookEntries : Qualifies(x))
        /\ generated.some =>
               /\ Mapping_keys(generated.v.ents) = << hookName >>
               /\ Mapping_keys(HookOf(generated.v, hookName).ents) = << "commands" >>

\* C27 for the files in which no two qualifying entries share an id
C27_TaskPerQualifyingId ==
    (\A x, y \in HookEntries :
        (Qualifies(x) /\ Qualifies(y) /\ HookAt(x).id = HookAt(y).id) => x = y)
    => C27_TaskPerQualifyingHook

\* ------------------------------------------------------------------------
\* C28
\* ------------------------------------------------------------------------

\* .pre-commit-config.yaml is a regular file
PreCommitPresent == preCommit.st \in {"bad", "ok"}

\* husky or a hooks directory has a script for the hook
LowerAdapterHasScript ==
    \/ \E f \in husky.entries : husky.dir /\ f.stem = hookName /\ f.kind = "file"
    \/ \E d \in ExistingDirs :
           \E f \in hooksDirs[d].files : NamedForHook(f) /\ f.kind = "file"

\* the keys of the commands of the adapter's document for the hook
AdapterCommandKeys ==
    IF adapterConfig.some
    THEN {c.key : c \in CommandsOf(HookOf(adapterConfig.v, hookName))}
    ELSE {}

\* C28: the adapter is chosen by detect alone: with .pre-commit-config.yaml
\* present the adapter document holds the tasks of its qualifying local
\* hooks and nothing else, and there is no adapter document when it has
\* none, whatever .husky and the hooks directories hold; likewise with
\* .husky present and no script for the hook in it.
C28_NoFallthrough ==
    pc = "adapted" =>
        /\ PreCommitPresent =>
               AdapterCommandKeys =
                   {HookAt(x).id : x \in {y \in HookEntries : Qualifies(y)}}
        /\ (~PreCommitPresent /\ husky.dir) =>
               AdapterCommandKeys =
                   {"husky" : f \in {g \in husky.entries :
                                       g.stem = hookName /\ g.kind = "file"}}

\* .pre-commit-config.yaml parses and has hooks, none of them in a local
\* repo; a script for the hook exists for a later adapter; no adapter
\* document
C28_Witness ==
    /\ pc = "adapted" /\ preCommit.st = "ok"
    /\ HookEntries # {}
    /\ \A x \in HookEntries : preCommit.cfg.repos[x[1]].repo # "local"
    /\ LowerAdapterHasScript
    /\ ~adapterConfig.some

\* ------------------------------------------------------------------------
\* C29
\* ------------------------------------------------------------------------

\* the adapter is asked: there is a root and no repo config
AdapterAsked == ~repoFound /\ inRepo

\* the document run_hook resolves for hook h in the environment of the state
RunHookDocument(h) ==
    resolve_config(globalDoc, repoFound, repoFile.doc,
        IF AdapterAsked THEN adapter_config_for(preCommit, husky, hooksDirs, h)
        ELSE None)

\* the document dry_run resolves in the environment of the state
DryRunDocument ==
    resolve_config(globalDoc, repoFound, repoFile.doc,
        IF AdapterAsked THEN adapter_config_for_all(preCommit, husky, hooksDirs)
        ELSE None)

ValueAt(doc, k) ==
    IF doc.isMap /\ Mapping_contains_key(doc.ents, k) THEN Some(TopValue(doc, k))
    ELSE None

\* the top-level keys under which two documents differ
Differ(a, b) == {k \in KeySet(a.ents) \cup KeySet(b.ents) : ValueAt(a, k) # ValueAt(b, k)}

\* the hook keys other than h for which the adapter generates a fragment
OtherAdapterHooks(h) ==
    {k \in Range(GIT_HOOKS) :
        /\ k # h /\ AdapterAsked
        /\ detect_adapter(preCommit, husky, hooksDirs) # NoAdapter
        /\ AdapterGenerate(detect_adapter(preCommit, husky, hooksDirs),
                           preCommit, husky, hooksDirs, k).some}

\* C29: the document dry_run prints and the document run_hook writes for a
\* recognized hook name h hold the same value under h and under every key
\* that is no hook name; they differ only under hook keys other than h that
\* the adapter contributes.
C29_DryRunAgreesWithRunHook ==
    /\ (command = "dry-run" /\ pc = "done" /\ exit = "SUCCESS") =>
           \A h \in Range(GIT_HOOKS) :
               Differ(printed, RunHookDocument(h)) \subseteq OtherAdapterHooks(h)
    /\ (command = "hook" /\ pc = "written") =>
           Differ(tempContent, DryRunDocument) \subseteq OtherAdapterHooks(hookName)

\* run_hook wrote the document for one hook; the adapter has a fragment for
\* that hook and for another one, which only dry_run shows, and the global
\* document has a key of its own
C29_Witness ==
    /\ command = "hook" /\ pc = "written"
    /\ adapterConfig.some
    /\ Differ(tempContent, DryRunDocument) # {}
    /\ ValueAt(tempContent, hookName).some
    /\ \E k \in KeySet(tempContent.ents) : k # hookName

\* ------------------------------------------------------------------------
\* C30
\* ------------------------------------------------------------------------

\* the repo config was read and merged into the final document
RepoMerged == pc = "resolved" /\ repoFound

\* the hook names both documents hold, one of them with a value that is no
\* mapping
MistypedHooks ==
    {k \in KeySet(globalDoc.ents) \cap KeySet(repoFile.doc.ents) :
        /\ is_hook_name(k)
        /\ ~(TopValue(globalDoc, k).isMap /\ TopValue(repoFile.doc, k).isMap)}

\* C30: merge_configs returns the overlay whenever either document is not a
\* mapping, so a repo config that parses to null makes the final document
\* null; merge_hook returns the overlay's hook value whenever either hook
\* value is not a mapping.
C30_OverlayWinsOnNonMapping ==
    RepoMerged =>
        /\ ~(globalDoc.isMap /\ repoFile.doc.isMap) => merged = repoFile.doc
        /\ (globalDoc.isMap /\ repoFile.doc.isMap) =>
               \A k \in MistypedHooks : TopValue(merged, k) = TopValue(repoFile.doc, k)

\* the global document has a key and the repo config parses to null: the
\* final document is null
C30_Witness ==
    /\ RepoMerged
    /\ globalDoc.isMap /\ Len(globalDoc.ents) > 0
    /\ repoFile.doc = Null
    /\ merged = Null

\* a hook both documents hold, a mapping in the global document and a scalar
\* in the repo config
C30_WitnessHook ==
    /\ RepoMerged /\ globalDoc.isMap /\ repoFile.doc.isMap
    /\ \E k \in MistypedHooks :
          TopValue(globalDoc, k).isMap /\ TopValue(merged, k) = TopValue(repoFile.doc, k)

====
